---- MODULE Spec2Model ----
(***************************************************************************)
(* app_web.py: the lead reconciliation engine (normalizers, status         *)
(* classifier, crosscheck_leads_with_sults), the column detectors and      *)
(* analyze_leads_dataframe, summarize_distribution, the creative analysis  *)
(* of upload_file, the header handling of the Google Sheets loader, the    *)
(* two module-level caches, the retry of the SULTS fetch (with             *)
(* SultsAPIClient._make_request of sults_api.py) and the asynchronous      *)
(* tasks.                                                                  *)
(*                                                                         *)
(* Spec runs crosscheck_leads_with_sults on a table and a contact list.    *)
(* NormSpec, DetectSpec, AnalyzeSpec, SummarizeSpec, CreativeSpec,         *)
(* HeaderSpec, NameTierSpec, CampaignSpec and OwnerSpec each apply one     *)
(* group of functions to an argument drawn from a bounded set.  CacheSpec  *)
(* and DataCacheSpec run the operations of a cache in any order, RetrySpec *)
(* the attempts of one fetch, and AsyncSpec the threads that start, run    *)
(* and poll the asynchronous tasks.                                        *)
(*                                                                         *)
(* Text is a sequence of characters, each character a one-element TLA+     *)
(* string; "U+00E9" and "U+00C9" stand for e-acute and E-acute, "U+0301"   *)
(* for the combining acute accent that NFKD splits off them.  None and     *)
(* float NaN, the two absent values of a cell or an argument, are          *)
(* one-element sequences of a marker no text contains.                     *)
(***************************************************************************)
EXTENDS Integers, Sequences, FiniteSets, TLC

VARIABLES
    nIn,                \* the argument handed to the function applied
    nFn,                \* the function applied ("none" before the call)
    nOut,               \* the value it returned
    df,                 \* the caller's DataFrame: rows, index labels, helper columns
    cols,               \* email_col / phone_col / name_col / status_col (TRUE = assigned)
    apiProjects,        \* what the SULTS API returns (the contact snapshot)
    SULTS_LEADS_CACHE,  \* module-level cache of extracted contacts
    sampleDraw,         \* the labels RandomState(42) draws for a table of this length
    run,                \* calls of crosscheck_leads_with_sults made so far (two are compared)
    results,            \* results[i]: what call i returned
    _DATA_CACHE,        \* module-level data cache: its entries in insertion order
    _async_tasks,       \* module-level task table: task id -> record
    caller,             \* how far the call in progress has got (per task in AsyncSpec)
    worker,             \* worker[t]: how far task_wrapper of task t has got
    now                 \* datetime.now(), in ticks of the clock

vars == <<nIn, nFn, nOut, df, cols, apiProjects, SULTS_LEADS_CACHE, sampleDraw, run, results,
          _DATA_CACHE, _async_tasks, caller, worker, now>>

normVars == <<nIn, nFn, nOut>>
sysVars == <<_DATA_CACHE, _async_tasks, caller, worker, now>>
crossVars == <<df, cols, apiProjects, SULTS_LEADS_CACHE, sampleDraw, run, results, sysVars>>

(***************************************************************************)
(* Bounds                                                                  *)
(***************************************************************************)
MaxLen == 3             \* longest free text handed to a normalizer
MaxStatusWords == 2     \* words in a status label
MaxRows == 3            \* rows of the spreadsheet

(***************************************************************************)
(* Characters and text helpers                                             *)
(***************************************************************************)
None == <<"<None>">>
NaN == <<"<NaN>">>

IsAbsent(v) == v = None \/ v = NaN

Digits == {"0", "1", "2", "3", "4", "5", "6", "7", "8", "9"}

LowerLetters == {"a", "b", "c", "d", "e", "f", "g", "h", "i", "j", "k", "l", "m",
                 "n", "o", "p", "q", "r", "s", "t", "u", "v", "w", "x", "y", "z"}

\* str.lower() on the characters the inputs use
LowerOf == ("A" :> "a") @@ ("B" :> "b") @@ ("C" :> "c") @@ ("D" :> "d") @@
           ("E" :> "e") @@ ("F" :> "f") @@ ("G" :> "g") @@ ("H" :> "h") @@
           ("I" :> "i") @@ ("J" :> "j") @@ ("K" :> "k") @@ ("L" :> "l") @@
           ("M" :> "m") @@ ("N" :> "n") @@ ("O" :> "o") @@ ("P" :> "p") @@
           ("Q" :> "q") @@ ("R" :> "r") @@ ("S" :> "s") @@ ("T" :> "t") @@
           ("U" :> "u") @@ ("V" :> "v") @@ ("W" :> "w") @@ ("X" :> "x") @@
           ("Y" :> "y") @@ ("Z" :> "z") @@ ("U+00C9" :> "U+00E9")

LowerChar(c) == IF c \in DOMAIN LowerOf THEN LowerOf[c] ELSE c

\* unicodedata.normalize('NFKD', c): an accented letter becomes base + combining mark
NFKDChar(c) == IF c = "U+00E9" THEN <<"e", "U+0301">>
               ELSE IF c = "U+00C9" THEN <<"E", "U+0301">>
               ELSE <<c>>

\* unicodedata.combining(c) != 0
Combining(c) == c = "U+0301"

IsSpace(c) == c = " "

RECURSIVE MapText(_, _)
MapText(F(_), s) == IF s = <<>> THEN <<>> ELSE <<F(Head(s))>> \o MapText(F, Tail(s))

RECURSIVE FlatMapText(_, _)
FlatMapText(F(_), s) == IF s = <<>> THEN <<>> ELSE F(Head(s)) \o FlatMapText(F, Tail(s))

RECURSIVE FilterText(_, _)
FilterText(P(_), s) ==
    IF s = <<>> THEN <<>>
    ELSE IF P(Head(s)) THEN <<Head(s)>> \o FilterText(P, Tail(s))
    ELSE FilterText(P, Tail(s))

Lower(s) == MapText(LowerChar, s)

RECURSIVE LStrip(_)
LStrip(s) == IF s # <<>> /\ IsSpace(Head(s)) THEN LStrip(Tail(s)) ELSE s

RECURSIVE RStrip(_)
RStrip(s) == IF s # <<>> /\ IsSpace(s[Len(s)]) THEN RStrip(SubSeq(s, 1, Len(s) - 1)) ELSE s

\* str.strip()
Strip(s) == RStrip(LStrip(s))

\* s[-n:]
LastN(s, n) == IF Len(s) <= n THEN s ELSE SubSeq(s, Len(s) - n + 1, Len(s))

StartsWith(s, p) == Len(s) >= Len(p) /\ SubSeq(s, 1, Len(p)) = p

\* `p in s` for strings
Contains(s, p) == \E i \in 0..(Len(s) - Len(p)) : SubSeq(s, i + 1, i + Len(p)) = p

\* re.sub(r'\s+', ' ', s)
RECURSIVE CollapseSpaces(_)
CollapseSpaces(s) ==
    IF Len(s) < 2 THEN s
    ELSE IF IsSpace(s[1]) /\ IsSpace(s[2]) THEN CollapseSpaces(Tail(s))
    ELSE <<Head(s)>> \o CollapseSpaces(Tail(s))

\* str(value) of the values a cell can hold
Str(v) == IF v = None THEN <<"N", "o", "n", "e">>
          ELSE IF v = NaN THEN <<"n", "a", "n">>
          ELSE v

\* Series.fillna('').astype(str)
FillNaStr(v) == IF IsAbsent(v) THEN <<>> ELSE v

(***************************************************************************)
(* Normalizers                                                             *)
(***************************************************************************)
normalize_email(value) ==
    IF IsAbsent(value) THEN <<>> ELSE Lower(Strip(Str(value)))

IsDigit(c) == c \in Digits

PHONE_KEY_LEN == 11

normalize_phone(value) ==
    IF IsAbsent(value) THEN <<>>
    ELSE LET digits0 == FilterText(IsDigit, Str(value))
             digits1 == IF StartsWith(digits0, <<"5", "5">>) /\ Len(digits0) > PHONE_KEY_LEN
                        THEN LastN(digits0, PHONE_KEY_LEN) ELSE digits0
         IN  IF Len(digits1) > PHONE_KEY_LEN THEN LastN(digits1, PHONE_KEY_LEN) ELSE digits1

WON_KEYWORDS == {<<"g", "a", "n", "h">>, <<"w", "o", "n">>,
                 <<"c", "l", "i", "e", "n", "t", "e">>, <<"c", "o", "n", "c", "l", "u">>}

LOST_KEYWORDS == {<<"p", "e", "r", "d">>, <<"l", "o", "s", "t">>,
                  <<"c", "a", "n", "c", "e", "l">>, <<"d", "e", "s", "i", "s", "t">>,
                  <<"n", "o", " ", "s", "h", "o", "w">>, <<"n", "o", "-", "s", "h", "o", "w">>}

OPEN_KEYWORDS == {<<"a", "b", "e", "r", "t">>, <<"a", "n", "d", "a", "m", "e", "n", "t">>,
                  <<"p", "e", "n", "d", "e", "n", "t", "e">>,
                  <<"a", "g", "e", "n", "d", "a", "d", "o">>,
                  <<"a", "n", "a", "l", "i", "s", "e">>,
                  <<"a", "n", "d", "a", "m", "e", "n", "t", "o">>}

ContainsAny(text, keywords) == \E k \in keywords : Contains(text, k)

normalize_status_key_SwappedOrder(value) ==
    IF value = None \/ value = <<>> THEN "outros"
    ELSE LET text == Lower(Str(value))
         IN  IF ContainsAny(text, LOST_KEYWORDS) THEN "perdido"
             ELSE IF ContainsAny(text, WON_KEYWORDS) THEN "ganho"
             ELSE IF ContainsAny(text, OPEN_KEYWORDS) THEN "aberto"
             ELSE "outros"

\* `not value` is true of None and of '', not of float NaN
normalize_status_key(value) ==
    IF value = None \/ value = <<>> THEN "outros"
    ELSE LET text == Lower(Str(value))
         IN  IF ContainsAny(text, WON_KEYWORDS) THEN "ganho"
             ELSE IF ContainsAny(text, LOST_KEYWORDS) THEN "perdido"
             ELSE IF ContainsAny(text, OPEN_KEYWORDS) THEN "aberto"
             ELSE "outros"

normalize_email_vectorized(cell) == Lower(Strip(FillNaStr(cell)))

normalize_phone_vectorized(cell) ==
    LET digits0 == FilterText(IsDigit, FillNaStr(cell))
        mask_55 == StartsWith(digits0, <<"5", "5">>) /\ Len(digits0) > PHONE_KEY_LEN
        digits1 == IF mask_55 THEN LastN(digits0, PHONE_KEY_LEN) ELSE digits0
        mask_long == Len(digits1) > PHONE_KEY_LEN
    IN  IF mask_long THEN LastN(digits1, PHONE_KEY_LEN) ELSE digits1

\* the three masks are applied one after the other, each overwriting the last
normalize_status_key_vectorized(cell) ==
    LET text == Lower(FillNaStr(cell))
        r0 == "outros"
        r1 == IF ContainsAny(text, WON_KEYWORDS) THEN "ganho" ELSE r0
        r2 == IF ContainsAny(text, LOST_KEYWORDS) THEN "perdido" ELSE r1
    IN  IF ContainsAny(text, OPEN_KEYWORDS) THEN "aberto" ELSE r2

\* [^a-z0-9 ]
IsSlugChar(c) == c \in LowerLetters \/ c \in Digits \/ c = " "

SlugCharOrSpace(c) == IF IsSlugChar(c) THEN c ELSE " "

\* re.sub(r'[^a-z0-9 ]+', ' ', t) followed by re.sub(r'\s+', ' ', t).strip()
SlugClean(t) == Strip(CollapseSpaces(MapText(SlugCharOrSpace, t)))

normalize_name_vectorized(cell) == SlugClean(Lower(Strip(FillNaStr(cell))))

NotCombining(c) == ~Combining(c)

normalize_name_NoFinalStrip(value) ==
    IF IsAbsent(value) THEN <<>>
    ELSE LET text == Lower(Strip(Str(value)))
         IN  IF text = <<>> THEN <<>>
             ELSE CollapseSpaces(MapText(SlugCharOrSpace,
                      FilterText(NotCombining, FlatMapText(NFKDChar, text))))

normalize_name(value) ==
    IF IsAbsent(value) THEN <<>>
    ELSE LET text == Lower(Strip(Str(value)))
         IN  IF text = <<>> THEN <<>>
             ELSE SlugClean(FilterText(NotCombining, FlatMapText(NFKDChar, text)))

(***************************************************************************)
(* NormSpec: the normalizers applied to one argument                       *)
(***************************************************************************)
NormAlphabet == {"a", "Z", "U+00E9", " ", "-", "5"}

RECURSIVE TextsUpTo(_, _)
TextsUpTo(alphabet, n) ==
    IF n = 0 THEN {<<>>}
    ELSE LET shorter == TextsUpTo(alphabet, n - 1)
         IN  shorter \cup {<<c>> \o t : c \in alphabet, t \in {u \in shorter : Len(u) = n - 1}}

\* phone numbers as they are typed: country code, area code, local number
PhoneCountry == {<<>>, <<"+", "5", "5", " ">>, <<"5", "5">>, <<"0", "5", "5">>}
PhoneArea == {<<"(", "1", "1", ")", " ">>, <<"5", "5">>}
PhoneLocal == {<<"9", "8", "8", "8", "8", "-", "7", "7", "7", "7">>,
               <<"8", "8", "8", "8", "-", "7", "7", "7", "7">>,
               <<"7", "7", "7", "7">>}

PhoneInputs == {c \o a \o l : c \in PhoneCountry, a \in PhoneArea, l \in PhoneLocal}

StatusWords == {<<"G", "a", "n", "h", "o">>, <<"p", "e", "r", "d", "i", "d", "o">>,
                <<"A", "b", "e", "r", "t", "o">>, <<"N", "o", "v", "o">>,
                <<"C", "l", "i", "e", "n", "t", "e">>, <<"n", "o", "-", "s", "h", "o", "w">>,
                <<"p", "e", "n", "d", "e", "n", "t", "e">>}

RECURSIVE StatusTexts(_)
StatusTexts(n) ==
    IF n = 0 THEN {}
    ELSE StatusWords \cup {t \o <<" ">> \o w : t \in StatusTexts(n - 1), w \in StatusWords}

NormInputs == {None, NaN} \cup TextsUpTo(NormAlphabet, MaxLen) \cup PhoneInputs
              \cup StatusTexts(MaxStatusWords)

IdleSys ==
    /\ _DATA_CACHE = <<>>
    /\ _async_tasks = <<>>
    /\ caller = <<>>
    /\ worker = <<>>
    /\ now = 0

IdleCross ==
    /\ IdleSys
    /\ df = [rows |-> <<>>, labels |-> <<>>, helper |-> <<>>]
    /\ cols = [email |-> FALSE, phone |-> FALSE, name |-> FALSE, status |-> FALSE]
    /\ apiProjects = <<>>
    /\ SULTS_LEADS_CACHE = [timestamp |-> FALSE, leads |-> <<>>, total |-> 0]
    /\ sampleDraw = <<>>
    /\ run = 0
    /\ results = <<>>

NormInit ==
    /\ nIn \in NormInputs
    /\ nFn = "none"
    /\ nOut = None
    /\ IdleCross

CallNormalizeEmail ==
    /\ nFn = "none"
    /\ nFn' = "normalize_email"
    /\ nOut' = normalize_email(nIn)
    /\ UNCHANGED <<nIn, crossVars>>

CallNormalizePhone ==
    /\ nFn = "none"
    /\ nFn' = "normalize_phone"
    /\ nOut' = normalize_phone(nIn)
    /\ UNCHANGED <<nIn, crossVars>>

CallNormalizeName ==
    /\ nFn = "none"
    /\ nFn' = "normalize_name"
    /\ nOut' = normalize_name(nIn)
    /\ UNCHANGED <<nIn, crossVars>>

CallNormalizeStatusKey ==
    /\ nFn = "none"
    /\ nFn' = "normalize_status_key"
    /\ nOut' = <<normalize_status_key(nIn)>>
    /\ UNCHANGED <<nIn, crossVars>>

CallNormalizeEmailVectorized ==
    /\ nFn = "none"
    /\ nFn' = "normalize_email_vectorized"
    /\ nOut' = normalize_email_vectorized(nIn)
    /\ UNCHANGED <<nIn, crossVars>>

CallNormalizePhoneVectorized ==
    /\ nFn = "none"
    /\ nFn' = "normalize_phone_vectorized"
    /\ nOut' = normalize_phone_vectorized(nIn)
    /\ UNCHANGED <<nIn, crossVars>>

CallNormalizeNameVectorized ==
    /\ nFn = "none"
    /\ nFn' = "normalize_name_vectorized"
    /\ nOut' = normalize_name_vectorized(nIn)
    /\ UNCHANGED <<nIn, crossVars>>

CallNormalizeStatusKeyVectorized ==
    /\ nFn = "none"
    /\ nFn' = "normalize_status_key_vectorized"
    /\ nOut' = <<normalize_status_key_vectorized(nIn)>>
    /\ UNCHANGED <<nIn, crossVars>>

NormNext ==
    \/ CallNormalizeEmail
    \/ CallNormalizePhone
    \/ CallNormalizeName
    \/ CallNormalizeStatusKey
    \/ CallNormalizeEmailVectorized
    \/ CallNormalizePhoneVectorized
    \/ CallNormalizeNameVectorized
    \/ CallNormalizeStatusKeyVectorized

NormSpec == NormInit /\ [][NormNext]_vars

(***************************************************************************)
(* SULTS contacts: _extract_sults_lead_entry and fetch_sults_leads_contacts *)
(***************************************************************************)
SULTS_AVAILABLE == TRUE

\* situacao.id decides first, then the concluido / pausado flags
ProjectStatusKey(projeto) ==
    IF projeto.situacao_id = 2 THEN "ganho"
    ELSE IF projeto.situacao_id = 3 THEN "perdido"
    ELSE IF projeto.situacao_id \in {1, 4} THEN "aberto"
    ELSE IF projeto.concluido THEN "ganho"
    ELSE IF projeto.pausado THEN "perdido"
    ELSE "aberto"

_extract_sults_lead_entry(projeto) ==
    [id            |-> projeto.id,
     email_norm    |-> normalize_email(projeto.email),
     telefone_norm |-> normalize_phone(projeto.phone),
     name_slug     |-> normalize_name(projeto.titulo),
     status_key    |-> ProjectStatusKey(projeto)]

RECURSIVE ExtractAll(_)
ExtractAll(projetos) ==
    IF projetos = <<>> THEN <<>>
    ELSE <<_extract_sults_lead_entry(Head(projetos))>> \o ExtractAll(Tail(projetos))

\* the answer of a successful API call, and the cache it leaves
Fetched(leads) ==
    [success |-> TRUE, leads |-> leads, total |-> Len(leads),
     cache |-> [timestamp |-> TRUE, leads |-> leads, total |-> Len(leads)]]

\* fresh: the cache entry is younger than SULTS_CACHE_TTL_SECONDS;
\* apiOk: _fetch_sults_data_with_retry returned instead of raising.
\* Returns the answer and the cache as the call leaves it.
fetch_sults_leads_contacts(cache, projetos, fresh, apiOk) ==
    IF ~SULTS_AVAILABLE
    THEN [success |-> FALSE, leads |-> <<>>, total |-> 0, cache |-> cache]
    ELSE IF cache.timestamp /\ fresh /\ cache.leads # <<>>
    THEN [success |-> TRUE, leads |-> cache.leads, total |-> cache.total, cache |-> cache]
    ELSE IF apiOk
    THEN Fetched(ExtractAll(projetos))
    ELSE [success |-> FALSE, leads |-> <<>>, total |-> 0, cache |-> cache]

(***************************************************************************)
(* crosscheck_leads_with_sults                                             *)
(***************************************************************************)
\* 5000 in the source; scaled with the table bound so that exactly the
\* longest tables of the model are sampled
max_rows_to_process == MaxRows - 1

\* a sample drawn without a fixed seed: another draw at every call
SampleUnseeded(frame, draw) ==
    IF Len(frame.rows) <= max_rows_to_process
    THEN [i \in 1..Len(frame.rows) |-> [label |-> frame.labels[i], cells |-> frame.rows[i]]]
    ELSE [i \in 1..max_rows_to_process |->
             [label |-> frame.labels[((draw[i] + run) % Len(frame.rows)) + 1],
              cells |-> frame.rows[((draw[i] + run) % Len(frame.rows)) + 1]]]

\* the rows the function works on: the caller's frame itself, or the sample
\* df.sample(n=max_rows_to_process, random_state=42) takes from it
SampleStable(frame, draw) ==
    IF Len(frame.rows) <= max_rows_to_process
    THEN [i \in 1..Len(frame.rows) |-> [label |-> frame.labels[i], cells |-> frame.rows[i]]]
    ELSE [i \in 1..max_rows_to_process |->
             [label |-> frame.labels[draw[i] + 1], cells |-> frame.rows[draw[i] + 1]]]

\* the helper columns written onto df_sample
WithHelperColumns(sample, c) ==
    [i \in 1..Len(sample) |->
        [label       |-> sample[i].label,
         cells       |-> sample[i].cells,
         _email_norm |-> IF c.email THEN normalize_email_vectorized(sample[i].cells.email)
                         ELSE <<>>,
         _phone_norm |-> IF c.phone THEN normalize_phone_vectorized(sample[i].cells.phone)
                         ELSE <<>>,
         _status_key |-> IF c.status THEN normalize_status_key_vectorized(sample[i].cells.status)
                         ELSE "outros",
         _name_slug  |-> IF c.name THEN normalize_name_vectorized(sample[i].cells.name)
                         ELSE <<>>]]

RECURSIVE SelectRows(_, _)
SelectRows(P(_), rows) ==
    IF rows = <<>> THEN <<>>
    ELSE IF P(Head(rows)) THEN <<Head(rows)>> \o SelectRows(P, Tail(rows))
    ELSE SelectRows(P, Tail(rows))

\* pd.merge(left, sults_df, left_on=leftKey, right_on=rightKey, how='inner'):
\* one line per (row, contact) pair with equal keys, in the order of the left
\* rows; the result carries a fresh RangeIndex 0..k-1
RECURSIVE MergeInner(_, _, _, _)
MergeInner(left, leads, leftKey, rightKey) ==
    IF left = <<>> THEN <<>>
    ELSE LET r == Head(left)
             hit(l) == l[rightKey] = r[leftKey]
             hits == SelectRows(hit, leads)
         IN  [j \in 1..Len(hits) |-> [row |-> r, lead |-> hits[j]]]
             \o MergeInner(Tail(left), leads, leftKey, rightKey)

\* frame[~frame.index.isin(merged.index)]: drops the rows whose index label
\* is one of the merge result's labels 0..Len(merged)-1
NotInMergeIndex(frame, merged) ==
    LET keep(r) == r.label \notin 0..(Len(merged) - 1)
    IN  SelectRows(keep, frame)

NonEmpty(frame, key) ==
    LET keep(r) == r[key] # <<>>
    IN  SelectRows(keep, frame)

\* itertuples() builds namedtuple(..., rename=True): every column whose name
\* starts with an underscore gets a positional name, so getattr by the
\* column's own name finds nothing and yields the default
RenamedByItertuples == {"_email_norm", "_phone_norm", "_status_key", "_name_slug"}

TupleGetattr(r, field, default) ==
    IF field \in RenamedByItertuples THEN default ELSE r[field]

\* '' if pd.isna(raw) else str(raw).strip(), of the column `role` when assigned
SheetText(r, c, role) ==
    IF c[role] THEN Strip(FillNaStr(r.cells[role])) ELSE <<>>

STATUS_KEYS == {"aberto", "perdido", "ganho", "outros"}

EmptyTally ==
    [matched_ids |-> {}, status_counts |-> [k \in STATUS_KEYS |-> 0],
     divergent |-> 0, matches_preview |-> <<>>]

\* the tallies and the match entry one matched line adds
AddMatch(acc, label, lead, sheet_status, differs, divergente, match_source) ==
    [matched_ids     |-> acc.matched_ids \cup {lead.id},
     status_counts   |-> [acc.status_counts EXCEPT ![lead.status_key] = @ + 1],
     divergent       |-> acc.divergent + (IF differs THEN 1 ELSE 0),
     matches_preview |-> Append(acc.matches_preview,
         [row          |-> label,
          sheet_status |-> sheet_status,
          match_source |-> match_source,
          sults_id     |-> lead.id,
          status_key   |-> lead.status_key,
          divergente   |-> divergente])]

\* `sheet_status_key and sheet_status_key != status_key`
KeysDiffer(sheet_status_key, status_key) ==
    sheet_status_key # "" /\ sheet_status_key # status_key

VectorizedEntry(acc, label, lead, sheet_status, sheet_status_key, match_source) ==
    AddMatch(acc, label, lead, sheet_status,
             KeysDiffer(sheet_status_key, lead.status_key),
             sheet_status # <<>> /\ KeysDiffer(sheet_status_key, lead.status_key),
             match_source)

\* one pass of the loop body of process_matches_vectorized; 0 stands for a
\* missing (falsy) id
ProcessMatchRow(acc, pair, c, match_source) ==
    IF pair.lead.id = 0 THEN acc
    ELSE VectorizedEntry(acc, pair.row.label, pair.lead, SheetText(pair.row, c, "status"),
                         TupleGetattr(pair.row, "_status_key", "outros"), match_source)

RECURSIVE process_matches_vectorized(_, _, _, _)
process_matches_vectorized(acc, matches, c, match_source) ==
    IF matches = <<>> THEN acc
    ELSE process_matches_vectorized(ProcessMatchRow(acc, Head(matches), c, match_source),
                                    Tail(matches), c, match_source)


\* str.split(): the maximal runs of non-space characters
RECURSIVE SplitWords(_, _)
SplitWords(s, word) ==
    IF s = <<>> THEN (IF word = <<>> THEN <<>> ELSE <<word>>)
    ELSE IF IsSpace(Head(s))
         THEN (IF word = <<>> THEN <<>> ELSE <<word>>) \o SplitWords(Tail(s), <<>>)
         ELSE SplitWords(Tail(s), Append(word, Head(s)))

MIN_TOKEN_LEN == 3

\* [tok for tok in slug.split() if len(tok) >= 3]
Tokens(slug) ==
    LET long(t) == Len(t) >= MIN_TOKEN_LEN
    IN  SelectRows(long, SplitWords(slug, <<>>))

\* str.replace(' ', '')
NotSpace(c) == ~IsSpace(c)
Compact(slug) == FilterText(NotSpace, slug)

\* email_lookup[key], phone_lookup[key], name_lookup[key]: the contacts that
\* carry the key, in list order
Lookup(leads, field, key) ==
    LET hit(l) == l[field] # <<>> /\ l[field] = key
    IN  SelectRows(hit, leads)

CompactLookup(leads, key) ==
    LET hit(l) == l.name_slug # <<>> /\ Compact(l.name_slug) # <<>> /\ Compact(l.name_slug) = key
    IN  SelectRows(hit, leads)

\* token_lookup[token]: a contact is appended once per occurrence of the token
RECURSIVE TokenLookup(_, _)
TokenLookup(leads, token) ==
    IF leads = <<>> THEN <<>>
    ELSE LET same(t) == t = token
             n == Len(SelectRows(same, Tokens(Head(leads).name_slug)))
         IN  [j \in 1..n |-> Head(leads)] \o TokenLookup(Tail(leads), token)

\* lead_by_id[id]: the last contact of the list with that (truthy) id
LeadById(leads, id) ==
    LET idx == {j \in 1..Len(leads) : leads[j].id = id}
    IN  leads[CHOOSE j \in idx : \A k \in idx : k <= j]

IdsOf(hits) == {hits[j].id : j \in 1..Len(hits)} \ {0}

\* {lead.get('id') for lead in token_lookup.get(token, []) if lead.get('id')}
TokenIds(leads, token) == IdsOf(TokenLookup(leads, token))

Narrow(potential, token_ids) ==
    [isNone |-> FALSE,
     ids |-> IF potential.isNone THEN token_ids ELSE potential.ids \cap token_ids]

\* the loop over tokens that narrows potential_ids; isNone: still None
RECURSIVE PotentialIds(_, _, _)
RECURSIVE PotentialStep(_, _, _, _)
PotentialStep(tokens, potential, leads, token_ids) ==
    IF token_ids = {} THEN PotentialIds(Tail(tokens), potential, leads)
    ELSE IF Cardinality(Narrow(potential, token_ids).ids) = 1
    THEN Narrow(potential, token_ids)
    ELSE PotentialIds(Tail(tokens), Narrow(potential, token_ids), leads)

PotentialIds(tokens, potential, leads) ==
    IF tokens = <<>> THEN potential
    ELSE PotentialStep(tokens, potential, leads, TokenIds(leads, Head(tokens)))

\* next(iter(ids)): CPython walks a set of small ints in ascending order
FirstOfSet(ids) == CHOOSE x \in ids : \A y \in ids : x <= y

FirstIfSingle(hits, rest) == IF Len(hits) = 1 THEN hits ELSE rest

\* the first token that exactly one token_lookup entry carries
RECURSIVE SingleTokenMatch(_, _)
SingleTokenMatch(tokens, leads) ==
    IF tokens = <<>> THEN <<>>
    ELSE FirstIfSingle(TokenLookup(leads, Head(tokens)), SingleTokenMatch(Tail(tokens), leads))

\* the first name_lookup entry whose slug contains, or is contained in, the row's
PartialMatch(leads, sheet_slug) ==
    LET hit(l) == l.name_slug # <<>>
                  /\ (Contains(l.name_slug, sheet_slug) \/ Contains(sheet_slug, l.name_slug))
    IN  SelectRows(hit, leads)

NoCandidate == [found |-> FALSE, lead |-> <<>>, match_source |-> "none"]

Found(lead, source) == [found |-> TRUE, lead |-> lead, match_source |-> source]

FirstOf(hits, source) == IF hits = <<>> THEN NoCandidate ELSE Found(hits[1], source)

OrElse(cand, other) == IF cand.found THEN cand ELSE other

\* potential_ids decides first, then a single-token hit
TokenTier(leads, tokens, potential) ==
    IF ~potential.isNone /\ potential.ids # {}
    THEN Found(LeadById(leads, FirstOfSet(potential.ids)), "nome_tokens")
    ELSE IF tokens # <<>> THEN FirstOf(SingleTokenMatch(tokens, leads), "nome_token")
    ELSE NoCandidate

TokenTiers(leads, tokens) ==
    TokenTier(leads, tokens, PotentialIds(tokens, [isNone |-> TRUE, ids |-> {}], leads))

\* the name tiers below the compact one (tokens, single token, partial)
NameTokenCascade(leads, sheet_slug) ==
    OrElse(TokenTiers(leads, Tokens(sheet_slug)),
           FirstOf(PartialMatch(leads, sheet_slug), "nome_parcial"))

NameCascade(leads, sheet_slug) ==
    OrElse(FirstOf(Lookup(leads, "name_slug", sheet_slug), "nome"),
           OrElse(FirstOf(CompactLookup(leads, Compact(sheet_slug)), "nome_compacto"),
                  NameTokenCascade(leads, sheet_slug)))

\* the if / elif cascade of the per-row loop
RowCandidate(leads, email_norm, phone_norm, sheet_slug) ==
    IF email_norm # <<>> /\ Lookup(leads, "email_norm", email_norm) # <<>>
    THEN FirstOf(Lookup(leads, "email_norm", email_norm), "email")
    ELSE IF phone_norm # <<>> /\ Lookup(leads, "telefone_norm", phone_norm) # <<>>
    THEN FirstOf(Lookup(leads, "telefone_norm", phone_norm), "telefone")
    ELSE IF sheet_slug # <<>> THEN NameCascade(leads, sheet_slug)
    ELSE NoCandidate

FallbackEntry(acc, label, cand, sheet_status, sheet_status_key) ==
    IF ~cand.found THEN acc
    ELSE AddMatch(acc, label, cand.lead, sheet_status,
                  sheet_status # <<>> /\ KeysDiffer(sheet_status_key, cand.lead.status_key),
                  sheet_status # <<>> /\ KeysDiffer(sheet_status_key, cand.lead.status_key),
                  cand.match_source)

\* one pass of the body of the loop over unmatched_normalized.itertuples()
ProcessUnmatchedRow(acc, r, c, leads) ==
    FallbackEntry(acc, r.label,
                  RowCandidate(leads, TupleGetattr(r, "_email_norm", <<>>),
                               TupleGetattr(r, "_phone_norm", <<>>),
                               TupleGetattr(r, "_name_slug", <<>>)),
                  SheetText(r, c, "status"),
                  TupleGetattr(r, "_status_key", "outros"))

RECURSIVE ProcessUnmatched(_, _, _, _)
ProcessUnmatched(acc, rows, c, leads) ==
    IF rows = <<>> THEN acc
    ELSE ProcessUnmatched(ProcessUnmatchedRow(acc, Head(rows), c, leads), Tail(rows), c, leads)

\* sum(status_counts.values())
SumCounts(counts) ==
    counts["aberto"] + counts["perdido"] + counts["ganho"] + counts["outros"]

Max(a, b) == IF a >= b THEN a ELSE b

BuildSummary_CountDistinctIds(acc, total_rows, total_sults) ==
    [total_planilha     |-> total_rows,
     total_sults        |-> total_sults,
     matched            |-> Cardinality(acc.matched_ids),
     unmatched_planilha |-> total_rows - Cardinality(acc.matched_ids),
     unmatched_sults    |-> Max(total_sults - Cardinality(acc.matched_ids), 0),
     status_counts      |-> acc.status_counts,
     divergent          |-> acc.divergent]

BuildSummary(acc, total_rows, total_sults) ==
    [total_planilha     |-> total_rows,
     total_sults        |-> total_sults,
     matched            |-> SumCounts(acc.status_counts),
     unmatched_planilha |-> total_rows - SumCounts(acc.status_counts),
     unmatched_sults    |-> Max(total_sults - Cardinality(acc.matched_ids), 0),
     status_counts      |-> acc.status_counts,
     divergent          |-> acc.divergent]

NoSummary == BuildSummary(EmptyTally, 0, 0)

Unavailable(message) ==
    [available |-> FALSE, message |-> message, has_summary |-> FALSE,
     summary |-> NoSummary, matches |-> <<>>]

Reply_EmptySuccess(summary, matches) ==
    [available   |-> TRUE,
     message     |-> "conciliados",
     has_summary |-> TRUE,
     summary     |-> summary,
     matches     |-> matches]

Reply(summary, matches) ==
    [available   |-> summary.matched # 0,
     message     |-> IF summary.matched = 0 THEN "nenhum_lead_conciliado" ELSE "conciliados",
     has_summary |-> TRUE,
     summary     |-> summary,
     matches     |-> matches]

FinishTally(acc, total_rows, total_sults) ==
    Reply(BuildSummary(acc, total_rows, total_sults), acc.matches_preview)

\* what one vectorized tier leaves: the rows the next tier may still take
\* and the tallies with this tier's merge lines processed
TierResult(unmatched, matches, acc, c, match_source) ==
    [unmatched |-> NotInMergeIndex(unmatched, matches),
     acc       |-> process_matches_vectorized(acc, matches, c, match_source)]

\* one vectorized tier: merge the rows left over with sults_df on the key
MergeTier(st, c, leads, leftKey, rightKey, match_source) ==
    TierResult(st.unmatched,
               MergeInner(NonEmpty(st.unmatched, leftKey), leads, leftKey, rightKey),
               st.acc, c, match_source)

\* the per-row loop over unmatched_by_all, then the summary
Finish(st, c, leads, total_rows, total_sults) ==
    FinishTally(ProcessUnmatched(st.acc, st.unmatched, c, leads), total_rows, total_sults)

\* email, then phone, then exact name: each tier works on the rows the
\* previous one left over
ReconcileSample(df_sample, c, leads, total_rows, total_sults) ==
    Finish(MergeTier(MergeTier(MergeTier([unmatched |-> df_sample, acc |-> EmptyTally],
                                         c, leads, "_email_norm", "email_norm", "email"),
                               c, leads, "_phone_norm", "telefone_norm", "telefone"),
                     c, leads, "_name_slug", "name_slug", "nome"),
           c, leads, total_rows, total_sults)

\* `if sults_df.empty`: an empty success whose summary has three keys only
EmptyContactsReply(total_rows) ==
    [available |-> TRUE, message |-> "sults_df_vazio", has_summary |-> TRUE,
     summary |-> BuildSummary(EmptyTally, total_rows, 0), matches |-> <<>>]

\* the function from the vectorized pre-processing to the returned dictionary
Reconcile(frame, c, leads, total_sults, draw) ==
    IF leads = <<>> THEN EmptyContactsReply(Len(frame.rows))
    ELSE ReconcileSample(WithHelperColumns(SampleStable(frame, draw), c), c, leads,
                         Len(frame.rows), total_sults)

HelperColumns(h) ==
    [i \in 1..Len(h) |-> [_email_norm |-> h[i]._email_norm,
                          _phone_norm |-> h[i]._phone_norm,
                          _status_key |-> h[i]._status_key,
                          _name_slug  |-> h[i]._name_slug]]

\* df_sample is df itself unless the table is sampled: the helper columns
\* are then written onto the caller's frame
FrameAfter(frame, c, draw) ==
    IF Len(frame.rows) <= max_rows_to_process
    THEN [frame EXCEPT !.helper = HelperColumns(WithHelperColumns(SampleStable(frame, draw), c))]
    ELSE frame

NoIdentityColumns_AlsoName(c) == ~c.email /\ ~c.phone /\ ~c.name

\* `if not email_col and not phone_col`
NoIdentityColumns(c) == ~c.email /\ ~c.phone

(***************************************************************************)
(* Spec: crosscheck_leads_with_sults called on a table and a contact list  *)
(***************************************************************************)
Txt_Aax == <<"A", "@", "x">>
Txt_aax == <<"a", "@", "x", " ">>
Txt_bax == <<"b", "@", "x">>
Txt_115 == <<"(", "1", "1", ")", "5">>
Txt_11_5 == <<"1", "1", "-", "5">>
Txt_Ana == <<"A", "n", "a">>
Txt_Jose == <<"J", "o", "s", "U+00E9">>
Txt_Bia == <<"B", "i", "a">>
Txt_Ganho == <<"G", "a", "n", "h", "o">>
Txt_Aberto == <<"A", "b", "e", "r", "t", "o">>

\* spreadsheet rows
RowPool ==
    {[email |-> Txt_Aax, phone |-> Txt_115, name |-> Txt_Ana, status |-> Txt_Ganho],
     [email |-> NaN, phone |-> NaN, name |-> Txt_Jose, status |-> NaN],
     [email |-> Txt_bax, phone |-> NaN, name |-> Txt_Bia, status |-> Txt_Aberto]}

\* projects as the SULTS API returns them
ProjectPool ==
    <<[id |-> 1, titulo |-> Txt_Ana, email |-> Txt_aax, phone |-> <<>>,
       situacao_id |-> 0, concluido |-> TRUE, pausado |-> FALSE],
      [id |-> 2, titulo |-> Txt_Jose, email |-> <<>>, phone |-> Txt_11_5,
       situacao_id |-> 3, concluido |-> FALSE, pausado |-> FALSE],
      [id |-> 3, titulo |-> Txt_Bia, email |-> Txt_Aax, phone |-> <<>>,
       situacao_id |-> 1, concluido |-> FALSE, pausado |-> FALSE]>>

RECURSIVE SubList(_, _, _)
SubList(pool, picked, i) ==
    IF i > Len(pool) THEN <<>>
    ELSE (IF i \in picked THEN <<pool[i]>> ELSE <<>>) \o SubList(pool, picked, i + 1)

ProjectLists == {SubList(ProjectPool, picked, 1) : picked \in SUBSET (1..Len(ProjectPool))}

Tables == UNION {[1..n -> RowPool] : n \in 0..MaxRows}

ColumnRoles ==
    {[email |-> TRUE, phone |-> TRUE, name |-> TRUE, status |-> TRUE],
     [email |-> TRUE, phone |-> TRUE, name |-> FALSE, status |-> FALSE],
     [email |-> FALSE, phone |-> FALSE, name |-> TRUE, status |-> TRUE],
     [email |-> FALSE, phone |-> FALSE, name |-> FALSE, status |-> FALSE]}

\* what df.sample(n=max_rows_to_process, random_state=42) can draw from n rows:
\* max_rows_to_process distinct positions, in any order
Draws(n) ==
    IF n <= max_rows_to_process THEN {<<>>}
    ELSE {d \in [1..max_rows_to_process -> 0..(n - 1)] :
             \A i, j \in 1..max_rows_to_process : i # j => d[i] # d[j]}

Init ==
    /\ nIn = None
    /\ nFn = "none"
    /\ nOut = None
    /\ \E t \in Tables :
          /\ df = [rows |-> t, labels |-> [i \in 1..Len(t) |-> i - 1], helper |-> <<>>]
          /\ sampleDraw \in Draws(Len(t))
    /\ cols \in ColumnRoles
    /\ apiProjects \in ProjectLists
    /\ SULTS_LEADS_CACHE = [timestamp |-> FALSE, leads |-> <<>>, total |-> 0]
    /\ run = 0
    /\ results = <<>>
    /\ IdleSys

Return(result, frame, cache) ==
    /\ results' = Append(results, result)
    /\ df' = frame
    /\ SULTS_LEADS_CACHE' = cache
    /\ run' = run + 1
    /\ UNCHANGED <<normVars, cols, apiProjects, sampleDraw, sysVars>>

crosscheck_leads_with_sults ==
    /\ run < 2
    /\ \E fresh \in BOOLEAN, apiOk \in BOOLEAN :
          IF ~SULTS_AVAILABLE
          THEN Return(Unavailable("sults_nao_configurada"), df, SULTS_LEADS_CACHE)
          ELSE IF NoIdentityColumns(cols)
          THEN Return(Unavailable("sem_colunas_email_telefone"), df, SULTS_LEADS_CACHE)
          ELSE \E sults_data \in
                   {fetch_sults_leads_contacts(SULTS_LEADS_CACHE, apiProjects, fresh, apiOk)} :
                  IF ~sults_data.success \/ sults_data.leads = <<>>
                  THEN Return(Unavailable("sem_dados_sults"), df, sults_data.cache)
                  ELSE Return(Reconcile(df, cols, sults_data.leads, sults_data.total,
                                        sampleDraw),
                              FrameAfter(df, cols, sampleDraw), sults_data.cache)

Next == crosscheck_leads_with_sults

Spec == Init /\ [][Next]_vars


(***************************************************************************)
(* Claims about the normalizers (checked under NormSpec)                   *)
(***************************************************************************)
IsString(v) == \A i \in 1..Len(v) : v[i] \notin {"<None>", "<NaN>"}

\* C6: normalize_email, normalize_phone and normalize_name return a string for
\* every argument (text, None, NaN, empty), return '' for an absent or empty
\* argument, and return their own result unchanged when applied to it.
C6_TotalIdempotent ==
    /\ nFn \in {"normalize_email", "normalize_phone", "normalize_name"} =>
            /\ IsString(nOut)
            /\ (IsAbsent(nIn) \/ nIn = <<>>) => nOut = <<>>
    /\ nFn = "normalize_email" => normalize_email(nOut) = nOut
    /\ nFn = "normalize_phone" => normalize_phone(nOut) = nOut
    /\ nFn = "normalize_name" => normalize_name(nOut) = nOut

C6_Witness ==
    /\ nFn = "normalize_name"
    /\ nIn = <<"Z", "-", "U+00E9">>
    /\ nOut = <<"z", " ", "e">>

\* the phone key as the specification words it: drop the "55" prefix of a digit
\* string longer than 11, then keep the last 11 digits of what is left
C7_ClaimedKey(raw) ==
    LET d == FilterText(IsDigit, raw)
        d1 == IF StartsWith(d, <<"5", "5">>) /\ Len(d) > 11 THEN SubSeq(d, 3, Len(d)) ELSE d
    IN  IF Len(d1) > 11 THEN LastN(d1, 11) ELSE d1

\* C7: normalize_phone and normalize_phone_vectorized strip the non-digits,
\* remove exactly the two-digit prefix "55" of a digit string longer than 11,
\* and then keep the last 11 digits if more are left.
C7_PhoneRule ==
    (nFn \in {"normalize_phone", "normalize_phone_vectorized"} /\ ~IsAbsent(nIn)) =>
        nOut = C7_ClaimedKey(nIn)

\* C8: the slug of a spreadsheet name (normalize_name_vectorized) equals the
\* slug normalize_name gives a contact of the same name, whatever its case,
\* diacritics, punctuation and whitespace.
C8_SheetSlugEqualsContactSlug ==
    nFn = "normalize_name_vectorized" => nOut = normalize_name(nIn)

C9_Has(keywords) == \E k \in keywords : Contains(Lower(Str(nIn)), k)

\* C9: normalize_status_key answers by the first keyword set found in the
\* order won, lost, open: 'ganho' when a won keyword occurs, else 'perdido'
\* when a lost keyword occurs, else 'aberto' when an open keyword occurs,
\* else 'outros'; an empty or absent value is 'outros'.
C9_StatusOrder ==
    nFn = "normalize_status_key" =>
        /\ (nIn = None \/ nIn = <<>> \/ nIn = NaN) => nOut = <<"outros">>
        /\ C9_Has(WON_KEYWORDS) => nOut = <<"ganho">>
        /\ (C9_Has(LOST_KEYWORDS) /\ ~C9_Has(WON_KEYWORDS)) => nOut = <<"perdido">>
        /\ (C9_Has(OPEN_KEYWORDS) /\ ~C9_Has(WON_KEYWORDS) /\ ~C9_Has(LOST_KEYWORDS)) =>
               nOut = <<"aberto">>
        /\ (~C9_Has(OPEN_KEYWORDS) /\ ~C9_Has(WON_KEYWORDS) /\ ~C9_Has(LOST_KEYWORDS)) =>
               nOut = <<"outros">>

C9_Witness ==
    /\ nFn = "normalize_status_key"
    /\ nIn = <<"p", "e", "r", "d", "i", "d", "o", " ", "G", "a", "n", "h", "o">>
    /\ C9_Has(WON_KEYWORDS) /\ C9_Has(LOST_KEYWORDS)
    /\ nOut = <<"ganho">>

(***************************************************************************)
(* Claims about crosscheck_leads_with_sults (checked under Spec)           *)
(***************************************************************************)
\* the contact list every call works on: the extracted API snapshot
Contacts == ExtractAll(apiProjects)

\* row labels are the positions 0..n-1 of the caller's frame
Labels == 0..(Len(df.rows) - 1)

ProcessedLabels ==
    IF Len(df.rows) <= max_rows_to_process THEN Labels
    ELSE {sampleDraw[i] : i \in 1..Len(sampleDraw)}

RowEmailKey(label) ==
    IF cols.email THEN normalize_email_vectorized(df.rows[label + 1].email) ELSE <<>>

RowPhoneKey(label) ==
    IF cols.phone THEN normalize_phone_vectorized(df.rows[label + 1].phone) ELSE <<>>

EntriesOf(i, label) ==
    {k \in 1..Len(results[i].matches) : results[i].matches[k].row = label}

\* the row's email is contact A's and its phone is another contact B's
EmailAndPhoneOfTwoContacts(label) ==
    /\ RowEmailKey(label) # <<>>
    /\ RowPhoneKey(label) # <<>>
    /\ \E a, b \in 1..Len(Contacts) :
          /\ Contacts[a].id # Contacts[b].id
          /\ Contacts[a].email_norm = RowEmailKey(label)
          /\ Contacts[b].telefone_norm = RowPhoneKey(label)

\* C1: a row whose email is the email of contact A and whose phone is the
\* phone of another contact B is matched by the email tier only: it has an
\* 'email' entry and no 'telefone' entry, whatever its position in the table.
C1_EmailTierOnly ==
    \A i \in 1..Len(results) : results[i].has_summary =>
        \A label \in ProcessedLabels : EmailAndPhoneOfTwoContacts(label) =>
            /\ EntriesOf(i, label) # {}
            /\ \A k \in EntriesOf(i, label) : results[i].matches[k].match_source = "email"

\* C2: the cascade stops at the first tier that matches: every row has at
\* most one entry in the match list of a run.
C2_OneEntryPerRow ==
    \A i \in 1..Len(results) : results[i].has_summary =>
        \A label \in Labels : Cardinality(EntriesOf(i, label)) <= 1

\* C3: in every summary, matched is the sum of the four histogram buckets
\* and unmatched_planilha is total_planilha minus matched.
C3_SummaryInvariant ==
    \A i \in 1..Len(results) : results[i].has_summary =>
        /\ results[i].summary.matched =
               results[i].summary.status_counts["aberto"]
               + results[i].summary.status_counts["perdido"]
               + results[i].summary.status_counts["ganho"]
               + results[i].summary.status_counts["outros"]
        /\ results[i].summary.unmatched_planilha =
               results[i].summary.total_planilha - results[i].summary.matched

C3_Witness ==
    \E i \in 1..Len(results) :
        /\ results[i].has_summary
        /\ results[i].summary.matched = 2
        /\ results[i].summary.total_planilha = 3
        /\ results[i].summary.status_counts["ganho"] = 1
        /\ results[i].summary.status_counts["perdido"] = 1

\* C4: a match entry is flagged divergente exactly when the row's status text
\* is not empty and its category (normalize_status_key) differs from the
\* contact's status_key.
C4_DivergenteFlag ==
    \A i \in 1..Len(results) : \A k \in 1..Len(results[i].matches) :
        results[i].matches[k].divergente <=>
            /\ results[i].matches[k].sheet_status # <<>>
            /\ normalize_status_key(results[i].matches[k].sheet_status)
                   # results[i].matches[k].status_key

C10_SkipOnlyWithoutAnyIdentityColumn ==
    \A i \in 1..Len(results) :
        results[i].message = "sem_colunas_email_telefone" =>
            (~cols.email /\ ~cols.phone /\ ~cols.name)

\* C10 as the code has it: reconciliation is skipped for lack of identity
\* columns exactly when neither the email nor the phone column is assigned,
\* whether or not a name column is.
C10_SkipIffNoEmailNoPhone ==
    \A i \in 1..Len(results) :
        results[i].message = "sem_colunas_email_telefone" <=> (~cols.email /\ ~cols.phone)

C10_Witness ==
    /\ Len(results) >= 1
    /\ cols.name /\ ~cols.email /\ ~cols.phone
    /\ Len(df.rows) > 0
    /\ results[1].message = "sem_colunas_email_telefone"
    /\ ~results[1].has_summary

\* C11: a run that matches no row returns available = false with the
\* zero-match message and the summary attached (matched 0, unmatched_planilha
\* = total rows, every histogram bucket 0); no run returns available = true
\* with matched = 0.
C11_ZeroMatches ==
    \A i \in 1..Len(results) : results[i].has_summary =>
        /\ results[i].available => results[i].summary.matched # 0
        /\ results[i].summary.matched = 0 =>
               /\ ~results[i].available
               /\ results[i].message = "nenhum_lead_conciliado"
               /\ results[i].summary.unmatched_planilha = results[i].summary.total_planilha
               /\ results[i].summary.total_planilha = Len(df.rows)
               /\ \A k \in STATUS_KEYS : results[i].summary.status_counts[k] = 0

C11_Witness ==
    /\ Len(results) >= 1
    /\ Len(df.rows) = 2
    /\ Len(Contacts) = 2
    /\ results[1].has_summary
    /\ results[1].summary.matched = 0
    /\ ~results[1].available

(***************************************************************************)
(* Column detectors of a lead spreadsheet and analyze_leads_dataframe      *)
(*                                                                         *)
(* A column is its header text; a detector returns a header or None.       *)
(***************************************************************************)
MaxHeaders == 3         \* columns of a header list handed to a detector
MaxColumns == 2         \* columns of a table handed to analyze_leads_dataframe
MaxDates == 2           \* rows of a table handed to analyze_leads_dataframe

\* detect_date_column
date_keywords ==
    {<<"d", "a", "t", "a">>,
     <<"d", "a", "t", "e">>,
     <<"d", "i", "a">>}

\* detect_lead_date_column
lead_date_keywords ==
    {<<"d", "a", "t", "a">>,
     <<"d", "a", "t", "e">>,
     <<"c", "r", "i", "a", "d", "o">>,
     <<"c", "a", "d", "a", "s", "t", "r", "o">>,
     <<"e", "n", "t", "r", "a", "d", "a">>,
     <<"c", "r", "e", "a", "t", "e", "d">>}

status_keywords ==
    {<<"s", "t", "a", "t", "u", "s">>,
     <<"e", "t", "a", "p", "a">>,
     <<"s", "t", "a", "g", "e">>,
     <<"s", "i", "t", "u", "a", "U+00E7", "U+00E3", "o">>,
     <<"s", "i", "t", "u", "a", "c", "a", "o">>,
     <<"f", "a", "s", "e">>,
     <<"p", "i", "p", "e", "l", "i", "n", "e">>,
     <<"a", "n", "d", "a", "m", "e", "n", "t", "o">>,
     <<"m", "q", "l">>}

source_keywords ==
    {<<"o", "r", "i", "g", "e", "m">>,
     <<"s", "o", "u", "r", "c", "e">>,
     <<"f", "o", "n", "t", "e">>,
     <<"c", "a", "n", "a", "l">>,
     <<"u", "t", "m">>,
     <<"c", "a", "m", "p", "a", "n", "h", "a">>,
     <<"m", "i", "d", "i", "a">>,
     <<"m", "U+00ED", "d", "i", "a">>,
     <<"p", "r", "o", "c", "e", "d", "U+00EA", "n", "c", "i", "a">>}

owner_keywords ==
    {<<"r", "e", "s", "p", "o", "n", "s">>,
     <<"c", "o", "n", "s", "u", "l", "t", "o", "r">>,
     <<"v", "e", "n", "d", "e", "d", "o", "r">>,
     <<"o", "w", "n", "e", "r">>,
     <<"a", "c", "c", "o", "u", "n", "t">>,
     <<"a", "t", "e", "n", "d", "e", "n", "t", "e">>,
     <<"a", "g", "e", "n", "t", "e">>,
     <<"s", "e", "l", "l", "e", "r">>,
     <<"e", "x", "e", "c", "u", "t", "i", "v", "o">>}

name_keywords ==
    {<<"n", "o", "m", "e">>,
     <<"n", "a", "m", "e">>,
     <<"l", "e", "a", "d">>,
     <<"c", "o", "n", "t", "a", "t", "o">>,
     <<"c", "l", "i", "e", "n", "t", "e">>}

email_keywords ==
    {<<"e", "m", "a", "i", "l">>,
     <<"e", "-", "m", "a", "i", "l">>,
     <<"m", "a", "i", "l">>}

phone_keywords ==
    {<<"f", "o", "n", "e">>,
     <<"t", "e", "l", "e", "f", "o", "n", "e">>,
     <<"p", "h", "o", "n", "e">>,
     <<"c", "e", "l", "u", "l", "a", "r">>,
     <<"w", "h", "a", "t", "s">>,
     <<"w", "h", "a", "t", "s", "a", "p", "p">>,
     <<"t", "e", "l">>}

\* the scan keeping the last column whose header has a keyword
RECURSIVE LastColumnWith(_, _)
LastColumnWith(columns, keywords) ==
    IF columns = <<>> THEN None
    ELSE IF ContainsAny(Strip(Lower(columns[Len(columns)])), keywords)
         THEN columns[Len(columns)]
         ELSE LastColumnWith(SubSeq(columns, 1, Len(columns) - 1), keywords)

\* for col in df.columns: if any(keyword in str(col).lower().strip() ...): return col
RECURSIVE FirstColumnWith(_, _)
FirstColumnWith(columns, keywords) ==
    IF columns = <<>> THEN None
    ELSE IF ContainsAny(Strip(Lower(Head(columns))), keywords) THEN Head(columns)
    ELSE FirstColumnWith(Tail(columns), keywords)

\* the same loop without .strip(), as detect_date_column has it
RECURSIVE detect_date_column(_)
detect_date_column(columns) ==
    IF columns = <<>> THEN None
    ELSE IF ContainsAny(Lower(Head(columns)), date_keywords) THEN Head(columns)
    ELSE detect_date_column(Tail(columns))

detect_lead_date_column(columns) == FirstColumnWith(columns, lead_date_keywords)

detect_lead_status_column(columns) == FirstColumnWith(columns, status_keywords)

detect_lead_source_column(columns) == FirstColumnWith(columns, source_keywords)

detect_lead_owner_column(columns) == FirstColumnWith(columns, owner_keywords)

detect_lead_name_column_NoFallback(columns) == FirstColumnWith(columns, name_keywords)

\* return df.columns[0] if len(df.columns) > 0 else None
detect_lead_name_column(columns) ==
    IF FirstColumnWith(columns, name_keywords) # None
    THEN FirstColumnWith(columns, name_keywords)
    ELSE IF Len(columns) > 0 THEN columns[1] ELSE None

detect_lead_email_column(columns) == FirstColumnWith(columns, email_keywords)

detect_lead_phone_column(columns) == FirstColumnWith(columns, phone_keywords)

\* df.columns = [str(col).strip() for col in df.columns]
StripColumns(columns) == [i \in 1..Len(columns) |-> Strip(columns[i])]

\* the seven role assignments of analyze_leads_dataframe
LeadRoles(columns) ==
    [date   |-> detect_lead_date_column(columns),
     status |-> detect_lead_status_column(columns),
     source |-> detect_lead_source_column(columns),
     owner  |-> detect_lead_owner_column(columns),
     name   |-> detect_lead_name_column(columns),
     email  |-> detect_lead_email_column(columns),
     phone  |-> detect_lead_phone_column(columns)]

\* a cell of the date column after pd.to_datetime(..., errors='coerce'): the
\* month it falls in relative to datetime.now(), or NaT when it does not parse
DateCells == {"current_month", "previous_month", "older", "NaT"}

CountOf(cells, kind) == Cardinality({i \in 1..Len(cells) : cells[i] = kind})

\* round(x, 2) of the fraction num/den, in hundredths (den > 0)
RoundHundredths(num, den) == (2 * num * 100 + den) \div (2 * den)

\* growth_rate, in hundredths of a percent
GrowthRate(current_month_leads, previous_month_leads) ==
    IF previous_month_leads > 0
    THEN RoundHundredths((current_month_leads - previous_month_leads) * 100,
                         previous_month_leads)
    ELSE IF current_month_leads > 0 THEN 10000 ELSE 0

NoTemporalComparison ==
    [current_month |-> 0, previous_month |-> 0, growth_rate |-> 0, growth_absolute |-> 0]

TemporalComparison(cells) ==
    [current_month   |-> CountOf(cells, "current_month"),
     previous_month  |-> CountOf(cells, "previous_month"),
     growth_rate     |-> GrowthRate(CountOf(cells, "current_month"),
                                    CountOf(cells, "previous_month")),
     growth_absolute |-> CountOf(cells, "current_month") - CountOf(cells, "previous_month")]

\* the kpis dictionary as line 2343 builds it: a fresh dictionary, without
\* a 'temporal_comparison' key
Kpis(total_leads, leads_without_date) ==
    [total_leads             |-> total_leads,
     leads_without_date      |-> leads_without_date,
     has_temporal_comparison |-> FALSE,
     temporal_comparison     |-> NoTemporalComparison]

Raised(exception, roles) ==
    [raised |-> TRUE, exception |-> exception, roles |-> roles, kpis |-> Kpis(0, 0)]

Returned(roles, kpis) ==
    [raised |-> FALSE, exception |-> "", roles |-> roles, kpis |-> kpis]

\* analyze_leads_dataframe after the role detection.  kpis is a local
\* variable first bound at line 2343; line 2219 subscripts it, so a date
\* column with a valid date ends the call with UnboundLocalError
AnalyzeRoles(roles, cells) ==
    IF roles.date # None /\ CountOf(cells, "NaT") < Len(cells)
    THEN Raised("UnboundLocalError", roles)
    ELSE Returned(roles, Kpis(Len(cells), IF roles.date # None THEN CountOf(cells, "NaT")
                                          ELSE Len(cells)))

analyze_leads_dataframe_result(sheet) ==
    AnalyzeRoles(LeadRoles(StripColumns(sheet.columns)), sheet.dates)

(***************************************************************************)
(* DetectSpec: one detector called on a header list                        *)
(***************************************************************************)
Hdr_Data == <<"D", "a", "t", "a">>
Hdr_StatusDoNegocio == <<"S", "t", "a", "t", "u", "s", " ", "d", "o", " ", "N", "e", "g", "U+00F3", "c", "i", "o">>
Hdr_Email == <<"E", "-", "m", "a", "i", "l">>
Hdr_Responsavel == <<"R", "e", "s", "p", "o", "n", "s", "U+00E1", "v", "e", "l">>
Hdr_Telefone == <<" ", "T", "e", "l", "e", "f", "o", "n", "e", " ">>
Hdr_StatusDoLead == <<"S", "t", "a", "t", "u", "s", " ", "d", "o", " ", "L", "e", "a", "d">>
Hdr_CanalDeEntrada == <<"C", "a", "n", "a", "l", " ", "d", "e", " ", "E", "n", "t", "r", "a", "d", "a">>
Hdr_Origem == <<"O", "r", "i", "g", "e", "m">>
Hdr_Dia == <<"D", "i", "a">>

HeaderPool ==
    {Hdr_Data, Hdr_StatusDoNegocio, Hdr_Email, Hdr_Responsavel,
     Hdr_Telefone, Hdr_StatusDoLead, Hdr_CanalDeEntrada, Hdr_Origem,
     Hdr_Dia}

\* the header list of the documented example
ExampleHeaders == <<Hdr_Data, Hdr_StatusDoNegocio, Hdr_Email, Hdr_Responsavel>>

HeaderLists(n) == UNION {[1..k -> HeaderPool] : k \in 0..n}

DetectInit ==
    /\ nIn \in HeaderLists(MaxHeaders) \cup {ExampleHeaders}
    /\ nFn = "none"
    /\ nOut = None
    /\ IdleCross

CallDetectDateColumn ==
    /\ nFn = "none"
    /\ nFn' = "detect_date_column"
    /\ nOut' = detect_date_column(nIn)
    /\ UNCHANGED <<nIn, crossVars>>

CallDetectLeadDateColumn ==
    /\ nFn = "none"
    /\ nFn' = "detect_lead_date_column"
    /\ nOut' = detect_lead_date_column(nIn)
    /\ UNCHANGED <<nIn, crossVars>>

CallDetectLeadStatusColumn ==
    /\ nFn = "none"
    /\ nFn' = "detect_lead_status_column"
    /\ nOut' = detect_lead_status_column(nIn)
    /\ UNCHANGED <<nIn, crossVars>>

CallDetectLeadSourceColumn ==
    /\ nFn = "none"
    /\ nFn' = "detect_lead_source_column"
    /\ nOut' = detect_lead_source_column(nIn)
    /\ UNCHANGED <<nIn, crossVars>>

CallDetectLeadOwnerColumn ==
    /\ nFn = "none"
    /\ nFn' = "detect_lead_owner_column"
    /\ nOut' = detect_lead_owner_column(nIn)
    /\ UNCHANGED <<nIn, crossVars>>

CallDetectLeadNameColumn ==
    /\ nFn = "none"
    /\ nFn' = "detect_lead_name_column"
    /\ nOut' = detect_lead_name_column(nIn)
    /\ UNCHANGED <<nIn, crossVars>>

CallDetectLeadEmailColumn ==
    /\ nFn = "none"
    /\ nFn' = "detect_lead_email_column"
    /\ nOut' = detect_lead_email_column(nIn)
    /\ UNCHANGED <<nIn, crossVars>>

CallDetectLeadPhoneColumn ==
    /\ nFn = "none"
    /\ nFn' = "detect_lead_phone_column"
    /\ nOut' = detect_lead_phone_column(nIn)
    /\ UNCHANGED <<nIn, crossVars>>

DetectNext ==
    \/ CallDetectDateColumn
    \/ CallDetectLeadDateColumn
    \/ CallDetectLeadStatusColumn
    \/ CallDetectLeadSourceColumn
    \/ CallDetectLeadOwnerColumn
    \/ CallDetectLeadNameColumn
    \/ CallDetectLeadEmailColumn
    \/ CallDetectLeadPhoneColumn

DetectSpec == DetectInit /\ [][DetectNext]_vars

(***************************************************************************)
(* AnalyzeSpec: analyze_leads_dataframe called on a table                  *)
(***************************************************************************)
\* header lists without repeated headers, as the loaders deliver them
DistinctHeaderLists(n) ==
    {h \in HeaderLists(n) : \A i, j \in 1..Len(h) : i # j => h[i] # h[j]}

DateColumns(n) == UNION {[1..k -> DateCells] : k \in 0..n}

\* a table: its headers and the cells of the column detected as the date
LeadSheets ==
    {[columns |-> h, dates |-> d] : h \in DistinctHeaderLists(MaxColumns),
                                    d \in DateColumns(MaxDates)}

AnalyzeInit ==
    /\ nIn \in LeadSheets
    /\ nFn = "none"
    /\ nOut = None
    /\ IdleCross

analyze_leads_dataframe ==
    /\ nFn = "none"
    /\ nFn' = "analyze_leads_dataframe"
    /\ nOut' = analyze_leads_dataframe_result(nIn)
    /\ UNCHANGED <<nIn, crossVars>>

AnalyzeNext == analyze_leads_dataframe

AnalyzeSpec == AnalyzeInit /\ [][AnalyzeNext]_vars

(***************************************************************************)
(* Claims about analyze_leads_dataframe (checked under AnalyzeSpec)        *)
(***************************************************************************)
\* the detected date column holds at least one date that parses
C12_HasParseableDate ==
    /\ detect_lead_date_column(StripColumns(nIn.columns)) # None
    /\ \E i \in 1..Len(nIn.dates) : nIn.dates[i] # "NaT"

\* growth rate as claimed, in hundredths of a percent
C12_ClaimedGrowth(current, previous) ==
    IF previous = 0 THEN (IF current # 0 THEN 10000 ELSE 0)
    ELSE RoundHundredths((current - previous) * 100, previous)

\* C12: analyze_leads_dataframe returns a result for every table without
\* raising, and when the detected date column holds a parseable date the
\* returned KPIs carry the current-month vs previous-month comparison with
\* the growth rate (current - previous) / previous * 100, 100.0 when previous
\* is 0 and current is not, 0.0 when both are 0.
C12_NeverAbortsWithComparison ==
    nFn = "analyze_leads_dataframe" =>
        /\ ~nOut.raised
        /\ C12_HasParseableDate =>
               /\ nOut.kpis.has_temporal_comparison
               /\ nOut.kpis.temporal_comparison.growth_rate =
                      C12_ClaimedGrowth(CountOf(nIn.dates, "current_month"),
                                        CountOf(nIn.dates, "previous_month"))

LeadRoleNames == {"date", "status", "source", "owner", "name", "email", "phone"}

\* C14: the role map analyze_leads_dataframe returns is injective: no column
\* is assigned to two of the roles date, status, source, owner, name, email
\* and phone.
C14_RoleMapInjective ==
    (nFn = "analyze_leads_dataframe" /\ ~nOut.raised) =>
        \A r1, r2 \in LeadRoleNames :
            (r1 # r2 /\ nOut.roles[r1] # None) => nOut.roles[r1] # nOut.roles[r2]

(***************************************************************************)
(* Claims about the column detectors (checked under DetectSpec)            *)
(***************************************************************************)
\* the keyword list of each detector
DetectorKeywords ==
    [detect_date_column        |-> date_keywords,
     detect_lead_date_column   |-> lead_date_keywords,
     detect_lead_status_column |-> status_keywords,
     detect_lead_source_column |-> source_keywords,
     detect_lead_owner_column  |-> owner_keywords,
     detect_lead_name_column   |-> name_keywords,
     detect_lead_email_column  |-> email_keywords,
     detect_lead_phone_column  |-> phone_keywords]

\* the lower-cased, trimmed header at position i has a keyword of the detector called
HeaderMatches(i) ==
    \E k \in DetectorKeywords[nFn] : Contains(Strip(Lower(nIn[i])), k)

\* C13: a detector returns the first column, in left-to-right order, whose
\* lower-cased and trimmed header contains any keyword of its role, whichever
\* keyword it is and however many later columns match too.
C13_LeftmostWins ==
    nFn \in DOMAIN DetectorKeywords =>
        \A i \in 1..Len(nIn) :
            (HeaderMatches(i) /\ \A j \in 1..(i - 1) : ~HeaderMatches(j)) => nOut = nIn[i]

C13_Witness ==
    /\ nFn = "detect_lead_source_column"
    /\ nIn = <<Hdr_Data, Hdr_CanalDeEntrada, Hdr_Origem>>
    /\ HeaderMatches(2) /\ HeaderMatches(3)
    /\ nOut = Hdr_CanalDeEntrada

\* C15: a role whose keywords occur in no header is None, except name, which
\* is then the first column of a table that has one; the headers Data, Status
\* do Negocio, E-mail, Responsavel give date, status, email and owner those
\* four columns and leave source and phone unassigned.
C15_UnassignedRoles ==
    nFn \in DOMAIN DetectorKeywords =>
        /\ (\A i \in 1..Len(nIn) : ~HeaderMatches(i)) =>
               nOut = IF nFn = "detect_lead_name_column" /\ Len(nIn) > 0 THEN nIn[1] ELSE None
        /\ nIn = ExampleHeaders =>
               /\ nFn = "detect_lead_date_column" => nOut = Hdr_Data
               /\ nFn = "detect_lead_status_column" => nOut = Hdr_StatusDoNegocio
               /\ nFn = "detect_lead_email_column" => nOut = Hdr_Email
               /\ nFn = "detect_lead_owner_column" => nOut = Hdr_Responsavel
               /\ nFn = "detect_lead_source_column" => nOut = None
               /\ nFn = "detect_lead_phone_column" => nOut = None

C15_Witness ==
    /\ nIn = ExampleHeaders
    /\ nFn = "detect_lead_phone_column"
    /\ nOut = None

(***************************************************************************)
(* summarize_distribution                                                  *)
(***************************************************************************)
MaxItems == 3           \* items of a distribution
MaxValue == 2           \* largest count of an item
MaxLimit == 2           \* largest limit asked for

RECURSIVE SumValues(_)
SumValues(items) ==
    IF items = <<>> THEN 0 ELSE Head(items).value + SumValues(Tail(items))

\* place item behind every element whose value is not smaller
RECURSIVE InsertDescending(_, _)
InsertDescending(sorted, item) ==
    IF sorted = <<>> THEN <<item>>
    ELSE IF Head(sorted).value >= item.value
         THEN <<Head(sorted)>> \o InsertDescending(Tail(sorted), item)
         ELSE <<item>> \o sorted

\* sorted(items, key=lambda x: x['value'], reverse=True): stable
RECURSIVE SortedDescending(_)
SortedDescending(items) ==
    IF items = <<>> THEN <<>>
    ELSE InsertDescending(SortedDescending(SubSeq(items, 1, Len(items) - 1)),
                          items[Len(items)])

\* s[:n] and s[n:]
FirstN(s, n) == SubSeq(s, 1, IF n < Len(s) THEN n ELSE Len(s))

DropN(s, n) == SubSeq(s, n + 1, Len(s))

\* round(value / total * 100, 1), in tenths of a percent (total > 0)
Percentage(value, total) == (2 * value * 1000 + total) \div (2 * total)

SummaryEntries(sorted_items, total) ==
    [i \in 1..Len(sorted_items) |->
        [label      |-> sorted_items[i].label,
         value      |-> sorted_items[i].value,
         percentage |-> IF total = 0 THEN 0 ELSE Percentage(sorted_items[i].value, total)]]

OutrosEntry(outros_value, total) ==
    IF outros_value > 0
    THEN <<[label |-> "Outros", value |-> outros_value,
            percentage |-> Percentage(outros_value, total)]>>
    ELSE <<>>

\* the overflow bucket summed one item too late
SummarizeSorted_SkipsFirstOverflow(sorted_items, limit, total) ==
    [summary |-> SummaryEntries(FirstN(sorted_items, limit), total)
                    \o OutrosEntry(SumValues(DropN(sorted_items, limit + 1)), total),
     total   |-> total]

SummarizeSorted(sorted_items, limit, total) ==
    IF total = 0
    THEN [summary |-> SummaryEntries(FirstN(sorted_items, limit), 0), total |-> 0]
    ELSE [summary |-> SummaryEntries(FirstN(sorted_items, limit), total)
                         \o OutrosEntry(SumValues(DropN(sorted_items, limit)), total),
          total   |-> total]

summarize_distribution(items, limit) ==
    IF items = <<>> THEN [summary |-> <<>>, total |-> 0]
    ELSE SummarizeSorted(SortedDescending(items), limit, SumValues(items))

(***************************************************************************)
(* SummarizeSpec: summarize_distribution called on a list of items         *)
(***************************************************************************)
ItemLabels == {"Ana", "Bia"}

DistributionItems == [label : ItemLabels, value : 0..MaxValue]

Distributions == UNION {[1..n -> DistributionItems] : n \in 0..MaxItems}

SummarizeInit ==
    /\ nIn \in [items : Distributions, limit : 0..MaxLimit]
    /\ nFn = "none"
    /\ nOut = None
    /\ IdleCross

CallSummarizeDistribution ==
    /\ nFn = "none"
    /\ nFn' = "summarize_distribution"
    /\ nOut' = summarize_distribution(nIn.items, nIn.limit)
    /\ UNCHANGED <<nIn, crossVars>>

SummarizeNext == CallSummarizeDistribution

SummarizeSpec == SummarizeInit /\ [][SummarizeNext]_vars

(***************************************************************************)
(* Claims about summarize_distribution (checked under SummarizeSpec)       *)
(***************************************************************************)
\* number of items kept: min(limit, len(items))
C16_Kept == IF nIn.limit < Len(nIn.items) THEN nIn.limit ELSE Len(nIn.items)

\* pick places the kept entries in the input: entry i is item pick[i], no
\* item is used twice, and no item left out is larger than a kept one
C16_IsTopSelection(pick) ==
    /\ \A i, j \in 1..C16_Kept : i # j => pick[i] # pick[j]
    /\ \A i \in 1..C16_Kept :
          /\ nOut.summary[i].label = nIn.items[pick[i]].label
          /\ nOut.summary[i].value = nIn.items[pick[i]].value
    /\ \A j \in 1..Len(nIn.items) :
          (\A i \in 1..C16_Kept : pick[i] # j) =>
              \A i \in 1..C16_Kept : nIn.items[j].value <= nOut.summary[i].value

MaxCreatives == 2       \* rows of creative_stats

Infinity == [kind |-> "inf", v |-> 0]

NotANumber == [kind |-> "nan", v |-> 0]

Number(v) == [kind |-> "num", v |-> v]

\* (numerator / denominator).round(2), in hundredths
Quotient(numerator, denominator) ==
    IF denominator = 0 THEN (IF numerator = 0 THEN NotANumber ELSE Infinity)
    ELSE Number(RoundHundredths(numerator, denominator))

\* .replace([np.inf, -np.inf, np.nan], 0)
ReplacedByZero(q) == IF q.kind = "num" THEN q.v ELSE 0

CPL(row) == Quotient(row.Total_Investimento, row.Total_Leads)

CPMQL(row) == Quotient(row.Total_Investimento, row.Total_MQLs)

RECURSIVE SumReplaced(_, _)
SumReplaced(Metric(_), rows) ==
    IF rows = <<>> THEN 0
    ELSE ReplacedByZero(Metric(Head(rows))) + SumReplaced(Metric, Tail(rows))

\* q > (sum / n) * 1.5: inf exceeds every mean, NaN fails every comparison
Above150(q, sum, n) ==
    IF q.kind = "inf" THEN TRUE
    ELSE IF q.kind = "nan" THEN FALSE
    ELSE 2 * n * q.v > 3 * sum

\* q <= (sum / n) * 0.7
AtMost70(q, sum, n) ==
    IF q.kind = "num" THEN 10 * n * q.v <= 7 * sum ELSE FALSE

\* the rule applied to quotients already replaced by 0
PerformanceStatus_ReplacedFirst(row, sum_cpl, sum_cpmql, n) ==
    IF /\ AtMost70(Number(ReplacedByZero(CPL(row))), sum_cpl, n)
       /\ AtMost70(Number(ReplacedByZero(CPMQL(row))), sum_cpmql, n)
       /\ row.Total_Leads >= 10
    THEN "Excelente"
    ELSE IF \/ Above150(Number(ReplacedByZero(CPL(row))), sum_cpl, n)
            \/ Above150(Number(ReplacedByZero(CPMQL(row))), sum_cpmql, n)
            \/ row.Total_Leads < 5
    THEN "Ruim"
    ELSE "Bom"

\* 'Bom', overwritten by 'Ruim', overwritten by 'Excelente'
PerformanceStatus(row, sum_cpl, sum_cpmql, n) ==
    IF /\ AtMost70(CPL(row), sum_cpl, n)
       /\ AtMost70(CPMQL(row), sum_cpmql, n)
       /\ row.Total_Leads >= 10
    THEN "Excelente"
    ELSE IF \/ Above150(CPL(row), sum_cpl, n)
            \/ Above150(CPMQL(row), sum_cpmql, n)
            \/ row.Total_Leads < 5
    THEN "Ruim"
    ELSE "Bom"

\* creative_stats as upload_file returns it: the tag decided on the raw
\* quotients, then inf and NaN replaced by 0 in every column
TaggedStats(rows, sum_cpl, sum_cpmql) ==
    [i \in 1..Len(rows) |->
        [Total_Leads        |-> rows[i].Total_Leads,
         Total_MQLs         |-> rows[i].Total_MQLs,
         Total_Investimento |-> rows[i].Total_Investimento,
         CPL                |-> ReplacedByZero(CPL(rows[i])),
         CPMQL              |-> ReplacedByZero(CPMQL(rows[i])),
         Performance_Status |-> PerformanceStatus(rows[i], sum_cpl, sum_cpmql, Len(rows))]]

CreativeAnalysis(rows) ==
    [sum_cpl   |-> SumReplaced(CPL, rows),
     sum_cpmql |-> SumReplaced(CPMQL, rows),
     stats     |-> TaggedStats(rows, SumReplaced(CPL, rows), SumReplaced(CPMQL, rows))]

(***************************************************************************)
(* CreativeSpec: upload_file analysing the creatives of a spreadsheet      *)
(***************************************************************************)
LeadCounts == {0, 4, 5, 10}

MqlCounts == {0, 2}

Investments == {0, 10, 30}

CreativeRows ==
    {r \in [Total_Leads : LeadCounts, Total_MQLs : MqlCounts, Total_Investimento : Investments] :
        r.Total_MQLs <= r.Total_Leads}

CreativeTables == UNION {[1..n -> CreativeRows] : n \in 1..MaxCreatives}

CreativeInit ==
    /\ nIn \in CreativeTables
    /\ nFn = "none"
    /\ nOut = None
    /\ IdleCross

upload_file ==
    /\ nFn = "none"
    /\ nFn' = "upload_file"
    /\ nOut' = CreativeAnalysis(nIn)
    /\ UNCHANGED <<nIn, crossVars>>

CreativeNext == upload_file

CreativeSpec == CreativeInit /\ [][CreativeNext]_vars

(***************************************************************************)
(* Claims about the performance tag (checked under CreativeSpec)           *)
(***************************************************************************)
\* x <= 0.7 * (sum / n) and x > 1.5 * (sum / n) for numbers in hundredths
C17_Low(x, sum) == 10 * Len(nIn) * x <= 7 * sum

C17_High(x, sum) == 2 * Len(nIn) * x > 3 * sum

\* the tag the rule gives creative i when it is judged with CPL = cpl and
\* CPMQL = cpmql, both numbers
C17_Rule(i, cpl, cpmql) ==
    IF C17_Low(cpl, nOut.sum_cpl) /\ C17_Low(cpmql, nOut.sum_cpmql) /\ nIn[i].Total_Leads >= 10
    THEN "Excelente"
    ELSE IF C17_High(cpl, nOut.sum_cpl) \/ C17_High(cpmql, nOut.sum_cpmql)
            \/ nIn[i].Total_Leads < 5
    THEN "Ruim"
    ELSE "Bom"

\* C17 as claimed: every creative is tagged by the rule applied to its CPL
\* and CPMQL with division-by-zero results replaced by 0 (a creative with no
\* MQL is judged with CPMQL = 0, one with no lead with CPL = 0).
C17_TagOnReplacedValues ==
    nFn = "upload_file" =>
        \A i \in 1..Len(nIn) :
            nOut.stats[i].Performance_Status = C17_Rule(i, nOut.stats[i].CPL, nOut.stats[i].CPMQL)

\* C17 as the code has it: a creative with leads and MQLs is tagged by the
\* rule on its CPL and CPMQL (10 leads qualify for 'Excelente', 5 leads do
\* not make it 'Ruim'); a creative without MQLs is never 'Excelente', and is
\* 'Ruim' when it has investment (CPMQL infinite) or fewer than 5 leads or a
\* CPL above 1.5 times the mean, else 'Bom'; a creative without leads is 'Ruim'.
C17_TagOnRawQuotients ==
    nFn = "upload_file" =>
        \A i \in 1..Len(nIn) :
            nOut.stats[i].Performance_Status =
                IF nIn[i].Total_Leads = 0 THEN "Ruim"
                ELSE IF nIn[i].Total_MQLs > 0
                THEN C17_Rule(i, nOut.stats[i].CPL, nOut.stats[i].CPMQL)
                ELSE IF \/ nIn[i].Total_Investimento > 0
                        \/ nIn[i].Total_Leads < 5
                        \/ C17_High(nOut.stats[i].CPL, nOut.sum_cpl)
                THEN "Ruim"
                ELSE "Bom"

C17_Witness ==
    /\ nFn = "upload_file"
    /\ Len(nIn) = 2
    /\ nIn[1].Total_Leads = 5 /\ nIn[1].Total_MQLs = 2 /\ nIn[1].Total_Investimento = 30
    /\ nIn[2].Total_Leads = 10 /\ nIn[2].Total_MQLs = 0 /\ nIn[2].Total_Investimento = 10
    /\ nOut.stats[2].CPL = 100
    /\ nOut.stats[2].CPMQL = 0
    /\ C17_Rule(2, 100, 0) = "Excelente"
    /\ nOut.stats[2].Performance_Status = "Ruim"

(***************************************************************************)
(* _make_unique_headers and the header padding of the Google Sheets loader *)
(***************************************************************************)
MaxRawHeaders == 3      \* cells of the header row
MaxPad == 1             \* how many cells the longest data row has beyond the header row

DigitText == <<"0", "1", "2", "3", "4", "5", "6", "7", "8", "9">>

\* str(n) for a natural number
RECURSIVE NatToText(_)
NatToText(n) ==
    IF n < 10 THEN <<DigitText[n + 1]>>
    ELSE NatToText(n \div 10) \o <<DigitText[(n % 10) + 1]>>

Txt_Coluna == <<"C", "o", "l", "u", "n", "a">>

\* base = str(header).strip() if header is not None else ''; '' becomes 'Coluna'
HeaderBase(header) ==
    IF header = None \/ Strip(header) = <<>> THEN Txt_Coluna ELSE Strip(header)

\* seen.get(base, 0) after the headers before position i
SeenCount(headers, i) ==
    Cardinality({j \in 1..(i - 1) : HeaderBase(headers[j]) = HeaderBase(headers[i])})

\* base if count == 0 else f"{base}_{count + 1}"
_make_unique_headers(headers) ==
    [i \in 1..Len(headers) |->
        IF SeenCount(headers, i) = 0 THEN HeaderBase(headers[i])
        ELSE HeaderBase(headers[i]) \o <<"_">> \o NatToText(SeenCount(headers, i) + 1)]

\* while len(header) < max_columns: header.append(f"Coluna_{len(header) + 1}")
RECURSIVE PadHeader(_, _)
PadHeader(header, max_columns) ==
    IF Len(header) >= max_columns THEN header
    ELSE PadHeader(Append(header, Txt_Coluna \o <<"_">> \o NatToText(Len(header) + 1)),
                   max_columns)

\* the header of a sheet as load_leads_dataframe_from_google_sheets builds it
SheetHeader(first_row, max_columns) ==
    PadHeader(_make_unique_headers(first_row), max_columns)

(***************************************************************************)
(* HeaderSpec: a header row made unique, alone and inside the loader       *)
(***************************************************************************)
RawHeaderPool ==
    {None, <<>>, <<"a">>, <<" ", "a">>, <<"a", "_", "2">>, <<"C", "o", "l", "u", "n", "a", "_", "2">>}

RawHeaderRows == UNION {[1..n -> RawHeaderPool] : n \in 0..MaxRawHeaders}

HeaderInit ==
    /\ nIn \in [headers : RawHeaderRows, pad : 0..MaxPad]
    /\ nFn = "none"
    /\ nOut = None
    /\ IdleCross

CallMakeUniqueHeaders ==
    /\ nFn = "none"
    /\ nFn' = "_make_unique_headers"
    /\ nOut' = _make_unique_headers(nIn.headers)
    /\ UNCHANGED <<nIn, crossVars>>

\* max_columns is the length of the longest row, the header row included
load_leads_dataframe_from_google_sheets ==
    /\ nFn = "none"
    /\ nFn' = "load_leads_dataframe_from_google_sheets"
    /\ nOut' = SheetHeader(nIn.headers, Len(nIn.headers) + nIn.pad)
    /\ UNCHANGED <<nIn, crossVars>>

HeaderNext ==
    \/ CallMakeUniqueHeaders
    \/ load_leads_dataframe_from_google_sheets

HeaderSpec == HeaderInit /\ [][HeaderNext]_vars

(***************************************************************************)
(* Claims about the headers (checked under HeaderSpec)                     *)
(***************************************************************************)
\* C18: _make_unique_headers returns as many headers as it is given, none
\* empty and no two equal, also when a raw header equals a name the
\* suffixing generates; they stay distinct after the loader pads them.
C18_UniqueHeaders ==
    nFn \in {"_make_unique_headers", "load_leads_dataframe_from_google_sheets"} =>
        /\ nFn = "_make_unique_headers" => Len(nOut) = Len(nIn.headers)
        /\ \A i \in 1..Len(nOut) : nOut[i] # <<>>
        /\ \A i, j \in 1..Len(nOut) : i # j => nOut[i] # nOut[j]

(***************************************************************************)
(* Claims about the name tiers of the per-row loop (checked under Spec)    *)
(***************************************************************************)
RowNameSlug(label) ==
    IF cols.name THEN normalize_name_vectorized(df.rows[label + 1].name) ELSE <<>>

\* no contact carries the row's email key, phone key or name slug
C19_ExactTiersMiss(label) ==
    \A j \in 1..Len(Contacts) :
        /\ ~(RowEmailKey(label) # <<>> /\ Contacts[j].email_norm = RowEmailKey(label))
        /\ ~(RowPhoneKey(label) # <<>> /\ Contacts[j].telefone_norm = RowPhoneKey(label))
        /\ Contacts[j].name_slug # RowNameSlug(label)

ContactsWithToken(token) ==
    {j \in 1..Len(Contacts) :
        \E k \in 1..Len(Tokens(Contacts[j].name_slug)) :
            Tokens(Contacts[j].name_slug)[k] = token}

\* (a) compact-equal, (b) a token of one contact only, (c) one slug within the other
C19_NameTierApplies(label) ==
    \/ \E j \in 1..Len(Contacts) :
          /\ Contacts[j].name_slug # <<>>
          /\ Compact(Contacts[j].name_slug) = Compact(RowNameSlug(label))
    \/ \E k \in 1..Len(Tokens(RowNameSlug(label))) :
          Cardinality(ContactsWithToken(Tokens(RowNameSlug(label))[k])) = 1
    \/ \E j \in 1..Len(Contacts) :
          /\ Contacts[j].name_slug # <<>>
          /\ \/ Contains(Contacts[j].name_slug, RowNameSlug(label))
             \/ Contains(RowNameSlug(label), Contacts[j].name_slug)

\* C19: a processed row that the email, phone and exact-name tiers do not
\* match, but whose name slug equals a contact's slug once the spaces are
\* removed, or has a token of three or more characters that exactly one
\* contact carries, or contains or is contained in a contact's slug, has an
\* entry in the match list whose match_source is nome_compacto, nome_tokens,
\* nome_token or nome_parcial.
C19_NameTiersMatch ==
    \A i \in 1..Len(results) : results[i].has_summary =>
        \A label \in ProcessedLabels :
            (/\ RowNameSlug(label) # <<>>
             /\ C19_ExactTiersMiss(label)
             /\ C19_NameTierApplies(label)) =>
                \E k \in EntriesOf(i, label) :
                    results[i].matches[k].match_source \in
                        {"nome_compacto", "nome_tokens", "nome_token", "nome_parcial"}

(***************************************************************************)
(* NameTierSpec: the candidate cascade of the per-row loop (the if / elif  *)
(* chain that sets candidate and match_source) applied to the name slug    *)
(* stored in the row's _name_slug helper column and to a contact list.     *)
(* The row has no email key and no phone key.  The loop itself reads the   *)
(* slug through TupleGetattr and hands the cascade '' (see C19).           *)
(***************************************************************************)
Slug_AnaLima == <<"a", "n", "a", " ", "l", "i", "m", "a">>
Slug_AnaSilva == <<"a", "n", "a", " ", "s", "i", "l", "v", "a">>
Slug_BiaCosta == <<"b", "i", "a", " ", "c", "o", "s", "t", "a">>
Slug_Ana == <<"a", "n", "a">>
Slug_AnaCosta == <<"a", "n", "a", " ", "c", "o", "s", "t", "a">>
Slug_AnaXyz == <<"a", "n", "a", " ", "x", "y", "z">>
Slug_LimaBia == <<"l", "i", "m", "a", " ", "b", "i", "a">>
Slug_Analima == <<"a", "n", "a", "l", "i", "m", "a">>
Slug_Costa == <<"c", "o", "s", "t", "a">>
Slug_An == <<"a", "n">>

NamedContact(id, slug) ==
    [id |-> id, email_norm |-> <<>>, telefone_norm |-> <<>>, name_slug |-> slug,
     status_key |-> "aberto"]

NamedContactPool ==
    <<NamedContact(1, Slug_AnaLima), NamedContact(2, Slug_AnaSilva),
      NamedContact(3, Slug_BiaCosta)>>

NamedContactLists ==
    {SubList(NamedContactPool, picked, 1) : picked \in SUBSET (1..Len(NamedContactPool))}

SheetSlugs ==
    {Slug_Ana, Slug_AnaLima, Slug_AnaCosta, Slug_AnaXyz, Slug_LimaBia, Slug_Analima,
     Slug_Costa, Slug_An}

NameTierInit ==
    /\ nIn \in [leads : NamedContactLists, sheet_slug : SheetSlugs]
    /\ nFn = "none"
    /\ nOut = None
    /\ IdleCross

CandidateOfRow ==
    /\ nFn = "none"
    /\ nFn' = "candidate"
    /\ nOut' = RowCandidate(nIn.leads, <<>>, <<>>, nIn.sheet_slug)
    /\ UNCHANGED <<nIn, crossVars>>

NameTierNext == CandidateOfRow

NameTierSpec == NameTierInit /\ [][NameTierNext]_vars

(***************************************************************************)
(* Claims about the name-tokens tier (checked under NameTierSpec)          *)
(***************************************************************************)
\* the ids of the contacts that carry every token of the row's slug
C20_Intersection ==
    IF Tokens(nIn.sheet_slug) = <<>> THEN {}
    ELSE {id \in IdsOf(nIn.leads) :
             \A k \in 1..Len(Tokens(nIn.sheet_slug)) :
                 id \in TokenIds(nIn.leads, Tokens(nIn.sheet_slug)[k])}

C20_SomeTokenOfOneContact ==
    \E k \in 1..Len(Tokens(nIn.sheet_slug)) :
        Len(TokenLookup(nIn.leads, Tokens(nIn.sheet_slug)[k])) = 1

C20_TokenTiersNeverReached ==
    \A i \in 1..Len(results) : results[i].has_summary =>
        \A k \in 1..Len(results[i].matches) :
            results[i].matches[k].match_source \notin {"nome_tokens", "nome_token"}

(***************************************************************************)
(* Column detectors of a campaign spreadsheet: detect_cost_columns,        *)
(* detect_leads_columns, detect_creative_columns                           *)
(*                                                                         *)
(* A column is its header text and whether its dtype is object; a role     *)
(* that is not assigned is None.                                           *)
(***************************************************************************)
metrics_keywords ==
    {<<"l", "e", "a", "d">>,
     <<"l", "e", "a", "d", "s">>,
     <<"m", "q", "l">>,
     <<"m", "q", "l", "s">>,
     <<"c", "l", "i", "q", "u", "e", "s">>,
     <<"i", "m", "p", "r", "e", "s", "s", "o", "e", "s">>,
     <<"i", "m", "p", "r", "e", "s", "s", "U+00E3", "o">>,
     <<"i", "n", "v", "e", "s", "t", "i", "m", "e", "n", "t", "o">>,
     <<"c", "u", "s", "t", "o">>,
     <<"c", "p", "l">>,
     <<"c", "p", "m", "q", "l">>,
     <<"c", "p", "c">>,
     <<"c", "p", "m">>,
     <<"c", "t", "r">>,
     <<"c", "o", "n", "v", "e", "r", "s", "a", "o">>,
     <<"c", "o", "n", "v", "e", "r", "s", "U+00E3", "o">>,
     <<"t", "a", "x", "a">>,
     <<"a", "l", "c", "a", "n", "c", "e">>,
     <<"r", "e", "a", "c", "h">>}

creative_keywords ==
    {<<"c", "r", "i", "a", "t", "i", "v", "o">>,
     <<"c", "r", "e", "a", "t", "i", "v", "e">>}

campaign_keywords ==
    {<<"c", "a", "m", "p", "a", "i", "g", "n">>,
     <<"c", "a", "m", "p", "a", "n", "h", "a">>}

content_keywords ==
    {<<"c", "o", "n", "t", "e", "n", "t">>,
     <<"c", "o", "n", "t", "e", "u", "d", "o">>,
     <<"c", "o", "n", "t", "e", "U+00FA", "d", "o">>,
     <<"a", "n", "u", "n", "c", "i", "o">>,
     <<"a", "n", "U+00FA", "n", "c", "i", "o">>}

creative_fallback_keywords ==
    {<<"b", "a", "n", "n", "e", "r">>,
     <<"i", "m", "a", "g", "e", "m">>,
     <<"v", "i", "d", "e", "o">>,
     <<"v", "U+00ED", "d", "e", "o">>,
     <<"t", "e", "x", "t", "o">>,
     <<"t", "i", "t", "u", "l", "o">>,
     <<"t", "U+00ED", "t", "u", "l", "o">>,
     <<"c", "o", "p", "y">>,
     <<"h", "e", "a", "d", "l", "i", "n", "e">>}

investment_keywords ==
    {<<"i", "n", "v", "e", "s", "t", "i", "m", "e", "n", "t", "o">>,
     <<"i", "n", "v", "e", "s", "t", "i", "d", "o">>}

cost_keywords ==
    {<<"c", "u", "s", "t", "o">>,
     <<"c", "o", "s", "t">>}

Kw_habilidade == <<"h", "a", "b", "i", "l", "i", "d", "a", "d", "e">>
Kw_cpl == <<"c", "p", "l">>
Kw_cpmql == <<"c", "p", "m", "q", "l">>
Kw_custo == <<"c", "u", "s", "t", "o">>
Kw_lead == <<"l", "e", "a", "d">>
Kw_leads == <<"l", "e", "a", "d", "s">>
Kw_mql == <<"m", "q", "l">>
Kw_mqls == <<"m", "q", "l", "s">>

\* str(col).lower().strip()
ColLower(col) == Strip(Lower(col.name))

\* one pass of the body of the loop of detect_cost_columns
CostStep(cost_cols, col, col_lower) ==
    IF col_lower = Kw_cpl THEN [cost_cols EXCEPT !.lead = col.name]
    ELSE IF col_lower = Kw_cpmql THEN [cost_cols EXCEPT !.mql = col.name]
    ELSE IF ContainsAny(col_lower, investment_keywords) /\ ~Contains(col_lower, Kw_habilidade)
    THEN [cost_cols EXCEPT !.total = col.name]
    ELSE IF ContainsAny(col_lower, cost_keywords) /\ ~Contains(col_lower, Kw_habilidade)
    THEN (IF cost_cols.total = None THEN [cost_cols EXCEPT !.total = col.name] ELSE cost_cols)
    ELSE cost_cols

RECURSIVE CostLoop(_, _)
CostLoop(cost_cols, columns) ==
    IF columns = <<>> THEN cost_cols
    ELSE CostLoop(CostStep(cost_cols, Head(columns), ColLower(Head(columns))), Tail(columns))

detect_cost_columns(columns) == CostLoop([lead |-> None, mql |-> None, total |-> None], columns)

\* the first loop of detect_leads_columns: the exact headers
LeadsStep(leads_cols, col, col_lower) ==
    IF col_lower = Kw_lead \/ col_lower = Kw_leads THEN [leads_cols EXCEPT !.lead = col.name]
    ELSE IF col_lower = Kw_mql \/ col_lower = Kw_mqls THEN [leads_cols EXCEPT !.mql = col.name]
    ELSE leads_cols

RECURSIVE LeadsLoop(_, _)
LeadsLoop(leads_cols, columns) ==
    IF columns = <<>> THEN leads_cols
    ELSE LeadsLoop(LeadsStep(leads_cols, Head(columns), ColLower(Head(columns))), Tail(columns))

\* 'lead' in col_lower and 'cpl' not in col_lower ... break
RECURSIVE FirstLeadLike(_)
FirstLeadLike(columns) ==
    IF columns = <<>> THEN None
    ELSE IF Contains(ColLower(Head(columns)), Kw_lead) /\ ~Contains(ColLower(Head(columns)), Kw_cpl)
    THEN Head(columns).name
    ELSE FirstLeadLike(Tail(columns))

\* 'mql' in col_lower and 'cpmql' not in col_lower and 'custo' not in col_lower ... break
RECURSIVE FirstMqlLike(_)
FirstMqlLike(columns) ==
    IF columns = <<>> THEN None
    ELSE IF /\ Contains(ColLower(Head(columns)), Kw_mql)
            /\ ~Contains(ColLower(Head(columns)), Kw_cpmql)
            /\ ~Contains(ColLower(Head(columns)), Kw_custo)
    THEN Head(columns).name
    ELSE FirstMqlLike(Tail(columns))

LeadsFallbacks(leads_cols, columns) ==
    [lead |-> IF leads_cols.lead = None THEN FirstLeadLike(columns) ELSE leads_cols.lead,
     mql  |-> IF leads_cols.mql = None THEN FirstMqlLike(columns) ELSE leads_cols.mql]

detect_leads_columns(columns) ==
    LeadsFallbacks(LeadsLoop([lead |-> None, mql |-> None], columns), columns)

\* the first loop of detect_creative_columns
CreativeStep(detected, col, col_lower) ==
    IF col_lower \in metrics_keywords THEN detected
    ELSE IF ContainsAny(col_lower, creative_keywords) THEN [detected EXCEPT !.creative = col.name]
    ELSE IF ContainsAny(col_lower, campaign_keywords) THEN [detected EXCEPT !.campaign = col.name]
    ELSE IF ContainsAny(col_lower, content_keywords) THEN [detected EXCEPT !.creative = col.name]
    ELSE detected

RECURSIVE CreativeLoop(_, _)
CreativeLoop(detected, columns) ==
    IF columns = <<>> THEN detected
    ELSE CreativeLoop(CreativeStep(detected, Head(columns), ColLower(Head(columns))),
                      Tail(columns))

\* the second loop: banner, imagem, video, ... break
RECURSIVE FirstCreativeLike(_)
FirstCreativeLike(columns) ==
    IF columns = <<>> THEN None
    ELSE IF /\ ColLower(Head(columns)) \notin metrics_keywords
            /\ ContainsAny(ColLower(Head(columns)), creative_fallback_keywords)
    THEN Head(columns).name
    ELSE FirstCreativeLike(Tail(columns))

\* the third loop: the first object column that is neither a date nor a metric
RECURSIVE FirstTextColumn(_)
FirstTextColumn(columns) ==
    IF columns = <<>> THEN None
    ELSE IF /\ ColLower(Head(columns)) \notin date_keywords
            /\ ColLower(Head(columns)) \notin metrics_keywords
            /\ Head(columns).dtype = "object"
    THEN Head(columns).name
    ELSE FirstTextColumn(Tail(columns))

NothingDetected(detected) == detected.creative = None /\ detected.campaign = None

CreativeThirdLoop(detected, columns) ==
    IF NothingDetected(detected)
    THEN [detected EXCEPT !.creative = FirstTextColumn(columns)]
    ELSE detected

CreativeSecondLoop(detected, columns) ==
    IF NothingDetected(detected)
    THEN CreativeThirdLoop([detected EXCEPT !.creative = FirstCreativeLike(columns)], columns)
    ELSE detected

detect_creative_columns(columns) ==
    CreativeSecondLoop(CreativeLoop([campaign |-> None, creative |-> None], columns), columns)

(***************************************************************************)
(* CampaignSpec: one campaign detector applied to a list of columns        *)
(***************************************************************************)
Col_Investimento == [name |-> <<"I", "n", "v", "e", "s", "t", "i", "m", "e", "n", "t", "o">>, dtype |-> "number"]
Col_ValorInvestido == [name |-> <<"V", "a", "l", "o", "r", " ", "I", "n", "v", "e", "s", "t", "i", "d", "o">>, dtype |-> "number"]
Col_Custo == [name |-> <<"C", "u", "s", "t", "o">>, dtype |-> "number"]
Col_Leads == [name |-> <<"L", "e", "a", "d", "s">>, dtype |-> "number"]
Col_Lead == [name |-> <<"L", "e", "a", "d">>, dtype |-> "number"]
Col_MQL == [name |-> <<"M", "Q", "L">>, dtype |-> "number"]
Col_MQLs == [name |-> <<"M", "Q", "L", "s">>, dtype |-> "number"]
Col_Criativo == [name |-> <<"C", "r", "i", "a", "t", "i", "v", "o">>, dtype |-> "object"]
Col_Creative == [name |-> <<"C", "r", "e", "a", "t", "i", "v", "e">>, dtype |-> "object"]
Col_Campanha == [name |-> <<"C", "a", "m", "p", "a", "n", "h", "a">>, dtype |-> "object"]
Col_Campaign == [name |-> <<"C", "a", "m", "p", "a", "i", "g", "n">>, dtype |-> "object"]
Col_Data == [name |-> <<"D", "a", "t", "a">>, dtype |-> "object"]
Col_Banner == [name |-> <<"B", "a", "n", "n", "e", "r">>, dtype |-> "object"]

CampaignColumnPool ==
    {Col_Investimento, Col_ValorInvestido, Col_Custo, Col_Leads, Col_Lead, Col_MQL, Col_MQLs,
     Col_Criativo, Col_Creative, Col_Campanha, Col_Campaign, Col_Data, Col_Banner}

CampaignColumnLists == UNION {[1..k -> CampaignColumnPool] : k \in 0..MaxHeaders}

CampaignInit ==
    /\ nIn \in CampaignColumnLists
    /\ nFn = "none"
    /\ nOut = None
    /\ IdleCross

CallDetectCostColumns ==
    /\ nFn = "none"
    /\ nFn' = "detect_cost_columns"
    /\ nOut' = detect_cost_columns(nIn)
    /\ UNCHANGED <<nIn, crossVars>>

CallDetectLeadsColumns ==
    /\ nFn = "none"
    /\ nFn' = "detect_leads_columns"
    /\ nOut' = detect_leads_columns(nIn)
    /\ UNCHANGED <<nIn, crossVars>>

CallDetectCreativeColumns ==
    /\ nFn = "none"
    /\ nFn' = "detect_creative_columns"
    /\ nOut' = detect_creative_columns(nIn)
    /\ UNCHANGED <<nIn, crossVars>>

CampaignNext ==
    \/ CallDetectCostColumns
    \/ CallDetectLeadsColumns
    \/ CallDetectCreativeColumns

CampaignSpec == CampaignInit /\ [][CampaignNext]_vars

(***************************************************************************)
(* Claims about the campaign detectors (checked under CampaignSpec)        *)
(***************************************************************************)
\* the columns that satisfy a role, by the words the role is detected with
C21_Satisfies(role, i) ==
    IF role = "total"
    THEN /\ ContainsAny(ColLower(nIn[i]), investment_keywords \cup cost_keywords)
         /\ ~Contains(ColLower(nIn[i]), Kw_habilidade)
         /\ ColLower(nIn[i]) \notin {Kw_cpl, Kw_cpmql}
    ELSE IF role = "lead" THEN ColLower(nIn[i]) \in {Kw_lead, Kw_leads}
    ELSE IF role = "mql" THEN ColLower(nIn[i]) \in {Kw_mql, Kw_mqls}
    ELSE IF role = "creative"
    THEN ColLower(nIn[i]) \notin metrics_keywords
         /\ ContainsAny(ColLower(nIn[i]), creative_keywords)
    ELSE ColLower(nIn[i]) \notin metrics_keywords
         /\ ~ContainsAny(ColLower(nIn[i]), creative_keywords)
         /\ ContainsAny(ColLower(nIn[i]), campaign_keywords)

C21_Leftmost(role, i) ==
    C21_Satisfies(role, i) /\ \A j \in 1..(i - 1) : ~C21_Satisfies(role, j)

C21_RolesOf ==
    [detect_cost_columns |-> {"total"},
     detect_leads_columns |-> {"lead", "mql"},
     detect_creative_columns |-> {"creative", "campaign"}]

\* C21: when several columns satisfy the same role among cost-total,
\* lead-count, mql-count, creative and campaign, detect_cost_columns,
\* detect_leads_columns and detect_creative_columns assign the role to the
\* leftmost of them.
C21_CampaignLeftmostWins ==
    nFn \in DOMAIN C21_RolesOf =>
        \A role \in C21_RolesOf[nFn] : \A i \in 1..Len(nIn) :
            C21_Leftmost(role, i) => nOut[role] = nIn[i].name

\* the same for two columns that both hold an investment word
C21_InvestmentCase ==
    (nFn = "detect_cost_columns" /\ nIn = <<Col_Investimento, Col_ValorInvestido>>) =>
        nOut.total = Col_Investimento.name

(***************************************************************************)
(* The owner distribution of analyze_leads_dataframe                       *)
(*                                                                         *)
(* The owner column is given by its value counts: owner_series             *)
(* .value_counts() lists the distinct owners by descending count, owner i  *)
(* being the i-th of them.  The table has no date column.                  *)
(***************************************************************************)
MaxOwners == 17         \* distinct owners of a table
MaxOwnerRows == 2       \* rows of one owner

OWNER_HEAD == 15
DEFAULT_LIMIT == 6

\* owner_series.value_counts().head(15) as a list of {'label', 'value'}
OwnerDistribution(value_counts) ==
    [i \in 1..Len(FirstN(value_counts, OWNER_HEAD)) |-> [label |-> i, value |-> value_counts[i]]]

RECURSIVE SumSeq(_)
SumSeq(s) == IF s = <<>> THEN 0 ELSE Head(s) + SumSeq(Tail(s))

\* total_rows, distributions.owner and totals.owner of the returned analysis
OwnerAnalysis(value_counts) ==
    [total_rows |-> SumSeq(value_counts),
     owner      |-> summarize_distribution(OwnerDistribution(value_counts), DEFAULT_LIMIT).summary,
     owner_total |-> summarize_distribution(OwnerDistribution(value_counts), DEFAULT_LIMIT).total]

(***************************************************************************)
(* OwnerSpec: analyze_leads_dataframe called on a table with an owner      *)
(* column                                                                  *)
(***************************************************************************)
\* n distinct owners: the first k of them have top rows each, the others one
OwnerValueCounts ==
    {[i \in 1..n |-> IF i <= k THEN top ELSE 1] :
        n \in 0..MaxOwners, k \in 0..MaxOwners, top \in 1..MaxOwnerRows}

OwnerInit ==
    /\ nIn \in OwnerValueCounts
    /\ nFn = "none"
    /\ nOut = None
    /\ IdleCross

AnalyzeOwners ==
    /\ nFn = "none"
    /\ nFn' = "analyze_leads_dataframe"
    /\ nOut' = OwnerAnalysis(nIn)
    /\ UNCHANGED <<nIn, crossVars>>

OwnerNext == AnalyzeOwners

OwnerSpec == OwnerInit /\ [][OwnerNext]_vars

(***************************************************************************)
(* Claims about the owner distribution (checked under OwnerSpec)           *)
(***************************************************************************)
RECURSIVE C22_SumOfEntries(_)
C22_SumOfEntries(entries) ==
    IF entries = <<>> THEN 0 ELSE Head(entries).value + C22_SumOfEntries(Tail(entries))

C22_PastTheSixth == SumSeq(DropN(nIn, DEFAULT_LIMIT))

\* C22: for a table with an owner column, the values of distributions.owner
\* sum to the number of rows and equal totals.owner, whatever the number of
\* distinct owners, and the 'Outros' entry holds the count of everything
\* past the sixth owner.
C22_OwnerSummaryCoversRows ==
    nFn = "analyze_leads_dataframe" =>
        /\ C22_SumOfEntries(nOut.owner) = nOut.total_rows
        /\ nOut.owner_total = nOut.total_rows
        /\ C22_PastTheSixth > 0 =>
               /\ Len(nOut.owner) = DEFAULT_LIMIT + 1
               /\ nOut.owner[DEFAULT_LIMIT + 1].label = "Outros"
               /\ nOut.owner[DEFAULT_LIMIT + 1].value = C22_PastTheSixth

\* the same up to fifteen distinct owners
C22_UpToFifteenOwners ==
    Len(nIn) <= OWNER_HEAD => C22_OwnerSummaryCoversRows

(***************************************************************************)
(* The two writers of SULTS_LEADS_CACHE: fetch_sults_leads_contacts and    *)
(* the /api/sults/verificar-leads route                                    *)
(*                                                                         *)
(* A record is a function of the keys it carries.  The projects are those  *)
(* the route's franchise filters keep.                                     *)
(***************************************************************************)
MaxCalls == 3           \* calls that read or fill the cache

\* the status the route gives a project
RouteStatus(projeto) ==
    IF projeto.situacao_id = 2 THEN "ganho"
    ELSE IF projeto.situacao_id = 3 THEN "perdido"
    ELSE IF projeto.situacao_id \in {1, 4} THEN "aberto"
    ELSE IF projeto.concluido THEN "ganho"
    ELSE IF projeto.pausado THEN "perdido"
    ELSE "aberto"

\* lead_data of the route, reduced to the keys the reconciliation reads
\* (plus 'status'); it has no 'name_slug' and no 'status_key'
RouteLeadData(projeto) ==
    [id            |-> projeto.id,
     email_norm    |-> normalize_email(projeto.email),
     telefone_norm |-> normalize_phone(projeto.phone),
     status        |-> RouteStatus(projeto)]

RECURSIVE RouteLeadsWithStatus(_, _)
RouteLeadsWithStatus(projetos, status) ==
    IF projetos = <<>> THEN <<>>
    ELSE (IF RouteStatus(Head(projetos)) = status THEN <<RouteLeadData(Head(projetos))>>
          ELSE <<>>) \o RouteLeadsWithStatus(Tail(projetos), status)

\* leads_abertos + leads_perdidos + leads_ganhos
RouteLeads(projetos) ==
    RouteLeadsWithStatus(projetos, "aberto") \o RouteLeadsWithStatus(projetos, "perdido")
        \o RouteLeadsWithStatus(projetos, "ganho")

RouteCache(projetos) ==
    [timestamp |-> TRUE, leads |-> RouteLeads(projetos), total |-> Len(RouteLeads(projetos))]

(***************************************************************************)
(* CacheSpec: calls of fetch_sults_leads_contacts and of the route, in any *)
(* order, on one contact snapshot                                          *)
(***************************************************************************)
CacheInit ==
    /\ nIn = None
    /\ nFn = "none"
    /\ nOut = None
    /\ df = [rows |-> <<>>, labels |-> <<>>, helper |-> <<>>]
    /\ cols = [email |-> FALSE, phone |-> FALSE, name |-> FALSE, status |-> FALSE]
    /\ apiProjects \in ProjectLists
    /\ SULTS_LEADS_CACHE = [timestamp |-> FALSE, leads |-> <<>>, total |-> 0]
    /\ sampleDraw = <<>>
    /\ run = 0
    /\ results = <<>>
    /\ IdleSys

AnswerOf(sults_data) ==
    [success |-> sults_data.success, leads |-> sults_data.leads, total |-> sults_data.total]

CallFetchSultsLeadsContacts ==
    /\ run < MaxCalls
    /\ \E fresh \in BOOLEAN, apiOk \in BOOLEAN :
          \E sults_data \in
              {fetch_sults_leads_contacts(SULTS_LEADS_CACHE, apiProjects, fresh, apiOk)} :
              /\ nFn' = "fetch_sults_leads_contacts"
              /\ nOut' = AnswerOf(sults_data)
              /\ SULTS_LEADS_CACHE' = sults_data.cache
    /\ run' = run + 1
    /\ UNCHANGED <<nIn, df, cols, apiProjects, sampleDraw, results, sysVars>>

\* the route fills the cache when its API calls succeed; an exception leaves
\* the cache as it was
verificar_sults_leads ==
    /\ run < MaxCalls
    /\ SULTS_AVAILABLE
    /\ \E apiOk \in BOOLEAN :
          SULTS_LEADS_CACHE' = IF apiOk THEN RouteCache(apiProjects) ELSE SULTS_LEADS_CACHE
    /\ nFn' = "verificar_sults_leads"
    /\ nOut' = None
    /\ run' = run + 1
    /\ UNCHANGED <<nIn, df, cols, apiProjects, sampleDraw, results, sysVars>>

CacheNext ==
    \/ CallFetchSultsLeadsContacts
    \/ verificar_sults_leads

CacheSpec == CacheInit /\ [][CacheNext]_vars

(***************************************************************************)
(* Claims about the contact cache (checked under CacheSpec)                *)
(***************************************************************************)
C23_ContactKeys == {"id", "email_norm", "telefone_norm", "name_slug", "status_key"}

C23_AllCarryKeys(leads) ==
    \A i \in 1..Len(leads) : C23_ContactKeys \subseteq DOMAIN leads[i]

\* C23: every record held in SULTS_LEADS_CACHE, and every record that
\* fetch_sults_leads_contacts returns, carries id, email_norm, telefone_norm,
\* name_slug and status_key, whichever of the two writers last filled the
\* cache.
C23_CacheRecordsComplete ==
    /\ C23_AllCarryKeys(SULTS_LEADS_CACHE.leads)
    /\ nFn = "fetch_sults_leads_contacts" => C23_AllCarryKeys(nOut.leads)

\* what fetch_sults_leads_contacts hands out after the route filled the cache
C23_FetchAfterRoute ==
    (nFn = "fetch_sults_leads_contacts" /\ nOut.success) => C23_AllCarryKeys(nOut.leads)

(***************************************************************************)
(* The data cache: _clear_old_cache, _get_from_cache, _save_to_cache       *)
(*                                                                         *)
(* _DATA_CACHE is the list of its entries in insertion order, each with    *)
(* its key, timestamp and ttl.  One tick of the clock is the time-to-live  *)
(* of the cache type used; key 0 stands for None.                          *)
(***************************************************************************)
MaxKeys == 11           \* distinct cache keys
MaxCacheTicks == 2      \* ticks of the clock

CACHE_MAX_ENTRIES == 10
CACHE_TTL == 1

CacheKeys(cache) == {cache[i].key : i \in 1..Len(cache)}

\* (now - value['timestamp']).total_seconds() > ttl
Expired(entry, t) == t - entry.timestamp > entry.ttl

RECURSIVE RemoveExpired(_, _)
RemoveExpired(cache, t) ==
    IF cache = <<>> THEN <<>>
    ELSE (IF Expired(Head(cache), t) THEN <<>> ELSE <<Head(cache)>>)
             \o RemoveExpired(Tail(cache), t)

\* the first entry of sorted(_DATA_CACHE.items(), key=timestamp): the earliest
\* inserted of the entries with the smallest timestamp
OldestIndex(cache) ==
    CHOOSE i \in 1..Len(cache) :
        /\ \A j \in 1..Len(cache) : cache[i].timestamp <= cache[j].timestamp
        /\ \A j \in 1..(i - 1) : cache[j].timestamp > cache[i].timestamp

RemoveAt(cache, i) == SubSeq(cache, 1, i - 1) \o SubSeq(cache, i + 1, Len(cache))

\* del of the excess oldest entries while the cache holds more than the maximum
RECURSIVE RemoveExcess(_)
RemoveExcess(cache) ==
    IF Len(cache) > CACHE_MAX_ENTRIES
    THEN RemoveExcess(RemoveAt(cache, OldestIndex(cache)))
    ELSE cache

ClearOldCache(cache, t) == RemoveExcess(RemoveExpired(cache, t))

NewEntry(key, t) == [key |-> key, timestamp |-> t, ttl |-> CACHE_TTL]

\* _DATA_CACHE[key] = {...}: an existing key keeps its place
Store(cache, key, t) ==
    IF key \in CacheKeys(cache)
    THEN [i \in 1..Len(cache) |-> IF cache[i].key = key THEN NewEntry(key, t) ELSE cache[i]]
    ELSE Append(cache, NewEntry(key, t))

\* the cache after _save_to_cache(key, data)
SaveToCache(cache, key, t) ==
    IF key = 0 THEN cache ELSE Store(ClearOldCache(cache, t), key, t)

EntryOf(cache, key) == cache[CHOOSE i \in 1..Len(cache) : cache[i].key = key]

IsHit(cache, key, t) ==
    /\ key # 0
    /\ key \in CacheKeys(cache)
    /\ t - EntryOf(cache, key).timestamp < CACHE_TTL

RemoveKey(cache, key) ==
    IF key \in CacheKeys(cache)
    THEN RemoveAt(cache, CHOOSE i \in 1..Len(cache) : cache[i].key = key)
    ELSE cache

\* the cache after _get_from_cache(key): an entry that is no longer fresh is deleted
GetFromCache(cache, key, t) ==
    IF key = 0 THEN cache
    ELSE IF IsHit(ClearOldCache(cache, t), key, t) THEN ClearOldCache(cache, t)
    ELSE RemoveKey(ClearOldCache(cache, t), key)

(***************************************************************************)
(* DataCacheSpec: saves, reads and clean-ups of the data cache as time     *)
(* passes.  A save uses key None, the first key or the smallest key the    *)
(* cache does not hold.                                                    *)
(***************************************************************************)
DataCacheInit ==
    /\ nIn = None
    /\ nFn = "none"
    /\ nOut = None
    /\ df = [rows |-> <<>>, labels |-> <<>>, helper |-> <<>>]
    /\ cols = [email |-> FALSE, phone |-> FALSE, name |-> FALSE, status |-> FALSE]
    /\ apiProjects = <<>>
    /\ SULTS_LEADS_CACHE = [timestamp |-> FALSE, leads |-> <<>>, total |-> 0]
    /\ sampleDraw = <<>>
    /\ run = 0
    /\ results = <<>>
    /\ IdleSys

SmallestAbsentKey(cache) ==
    {k \in 1..MaxKeys : k \notin CacheKeys(cache) /\ \A j \in 1..(k - 1) : j \in CacheKeys(cache)}

DataCacheFrame ==
    UNCHANGED <<df, cols, apiProjects, SULTS_LEADS_CACHE, sampleDraw, run, results,
                _async_tasks, caller, worker>>

_save_to_cache ==
    /\ \E key \in {0, 1} \cup SmallestAbsentKey(_DATA_CACHE) :
          /\ nOut' = (key # 0)
          /\ _DATA_CACHE' = SaveToCache(_DATA_CACHE, key, now)
    /\ nFn' = "_save_to_cache"
    /\ UNCHANGED <<nIn, now>>
    /\ DataCacheFrame

_get_from_cache ==
    /\ \E key \in {0, 1} :
          /\ nOut' = IsHit(ClearOldCache(_DATA_CACHE, now), key, now)
          /\ _DATA_CACHE' = GetFromCache(_DATA_CACHE, key, now)
    /\ nFn' = "_get_from_cache"
    /\ UNCHANGED <<nIn, now>>
    /\ DataCacheFrame

_clear_old_cache ==
    /\ _DATA_CACHE' = ClearOldCache(_DATA_CACHE, now)
    /\ nFn' = "_clear_old_cache"
    /\ nOut' = None
    /\ UNCHANGED <<nIn, now>>
    /\ DataCacheFrame

CacheClockTick ==
    /\ now < MaxCacheTicks
    /\ now' = now + 1
    /\ UNCHANGED <<normVars, _DATA_CACHE>>
    /\ DataCacheFrame

DataCacheNext ==
    \/ _save_to_cache
    \/ _get_from_cache
    \/ _clear_old_cache
    \/ CacheClockTick

DataCacheSpec == DataCacheInit /\ [][DataCacheNext]_vars

(***************************************************************************)
(* Claims about the data cache (checked under DataCacheSpec)               *)
(***************************************************************************)
\* C24: after any sequence of _save_to_cache, _get_from_cache and
\* _clear_old_cache calls, _DATA_CACHE holds at most CACHE_MAX_ENTRIES
\* entries, also right after a save into a cache that already holds that
\* many entries that have not expired.
C24_CacheSizeBound == Len(_DATA_CACHE) <= CACHE_MAX_ENTRIES

\* the size the cache does stay within
C24_OneOverTheMaximum == Len(_DATA_CACHE) <= CACHE_MAX_ENTRIES + 1

(***************************************************************************)
(* Retry of the contact fetch: SultsAPIClient._make_request,               *)
(* _fetch_sults_data_with_retry and the try / except of                    *)
(* fetch_sults_leads_contacts                                              *)
(***************************************************************************)
STOP_AFTER_ATTEMPT == 3

\* what requests.request and raise_for_status can do with one request;
\* Timeout and ConnectionError are subclasses of RequestException, like
\* HTTPError
RequestOutcomes == {"json", "bad_json", "html", "HTTPError", "ConnectionError", "Timeout"}

NetworkErrors == {"HTTPError", "ConnectionError", "Timeout"}

\* the classes retry_if_exception_type((RequestException, Timeout)) accepts
RetryTypes == {"RequestException", "HTTPError", "ConnectionError", "Timeout"}

\* both except clauses raise Exception(error_msg) from e, and so do the two
\* checks of the response body
MakeRequest(outcome, payload) ==
    IF outcome = "json" THEN [raised |-> "none", value |-> payload]
    ELSE [raised |-> "Exception", value |-> <<>>]

\* the class in sults_api.py has no get_negocios_franqueados, so the call
\* raises AttributeError; a client that has the method makes its request
\* through _make_request as every getter of the class does
ClientKinds == {"sults_api", "with_negocios_franqueados"}

get_negocios_franqueados(client, outcome, payload) ==
    IF client = "sults_api" THEN [raised |-> "AttributeError", value |-> <<>>]
    ELSE MakeRequest(outcome, payload)

get_projetos(outcome, payload) == MakeRequest(outcome, payload)

\* one execution of the body of _fetch_sults_data_with_retry
FetchBody(client, first, firstPayload, second, projetos) ==
    IF get_negocios_franqueados(client, first, firstPayload).raised # "none"
    THEN get_negocios_franqueados(client, first, firstPayload)
    ELSE IF get_negocios_franqueados(client, first, firstPayload).value # <<>>
    THEN get_negocios_franqueados(client, first, firstPayload)
    ELSE get_projetos(second, projetos)

\* the requests one execution of the body makes
RequestsOf(client, first, firstPayload, second) ==
    IF client = "sults_api" THEN <<>>
    ELSE IF first = "json" /\ firstPayload = <<>> THEN <<first, second>>
    ELSE <<first>>

\* the decorator: after an attempt that raised, call again only for the
\* accepted classes and only before the last attempt; reraise otherwise
AfterAttempt(attempts, answer) ==
    IF answer.raised = "none" THEN "returned"
    ELSE IF answer.raised \in RetryTypes /\ attempts < STOP_AFTER_ATTEMPT THEN "calling"
    ELSE "raised"

RetryInit ==
    /\ nIn \in ClientKinds
    /\ nFn = "none"
    /\ nOut = None
    /\ df = [rows |-> <<>>, labels |-> <<>>, helper |-> <<>>]
    /\ cols = [email |-> FALSE, phone |-> FALSE, name |-> FALSE, status |-> FALSE]
    /\ apiProjects \in ProjectLists
    /\ SULTS_LEADS_CACHE = [timestamp |-> FALSE, leads |-> <<>>, total |-> 0]
    /\ sampleDraw = <<>>
    /\ run = 0
    /\ results = <<>>
    /\ _DATA_CACHE = <<>>
    /\ _async_tasks = <<>>
    /\ caller = [pc |-> "calling", attempts |-> 0, requests |-> <<>>,
                 answer |-> [raised |-> "none", value |-> <<>>]]
    /\ worker = <<>>
    /\ now = 0

RetryFrame ==
    UNCHANGED <<nIn, df, cols, apiProjects, sampleDraw, run, results,
                _DATA_CACHE, _async_tasks, worker, now>>

\* one attempt of _fetch_sults_data_with_retry
Attempt ==
    /\ caller.pc = "calling"
    /\ \E first \in RequestOutcomes, second \in RequestOutcomes,
          firstPayload \in {<<>>, apiProjects} :
          \E answer \in {FetchBody(nIn, first, firstPayload, second, apiProjects)} :
             caller' = [pc |-> AfterAttempt(caller.attempts + 1, answer),
                        attempts |-> caller.attempts + 1,
                        requests |-> caller.requests
                                        \o RequestsOf(nIn, first, firstPayload, second),
                        answer |-> answer]
    /\ UNCHANGED <<nFn, nOut, SULTS_LEADS_CACHE>>
    /\ RetryFrame

\* fetch_sults_leads_contacts after the decorated call returned or raised
ReportFetch ==
    /\ caller.pc \in {"returned", "raised"}
    /\ \E sults_data \in
             {fetch_sults_leads_contacts(SULTS_LEADS_CACHE, caller.answer.value, FALSE,
                                         caller.pc = "returned")} :
          /\ nOut' = AnswerOf(sults_data)
          /\ SULTS_LEADS_CACHE' = sults_data.cache
    /\ nFn' = "fetch_sults_leads_contacts"
    /\ caller' = [caller EXCEPT !.pc = "done"]
    /\ RetryFrame

RetryNext ==
    \/ Attempt
    \/ ReportFetch

RetrySpec == RetryInit /\ [][RetryNext]_vars

(***************************************************************************)
(* Claims about the retry (checked under RetrySpec)                        *)
(***************************************************************************)
C25_NetworkFailureSeen == \E i \in 1..Len(caller.requests) : caller.requests[i] \in NetworkErrors

C25_SingleAttempt == caller.attempts <= 1

(***************************************************************************)
(* Claims about the summary counters and the caller's frame (checked under *)
(* Spec)                                                                   *)
(***************************************************************************)
\* C26: in every summary returned by crosscheck_leads_with_sults, matched
\* never exceeds the number of spreadsheet rows processed: matched <=
\* total_planilha and unmatched_planilha >= 0, also for contact lists with
\* duplicate emails, phones or names.
C26_MatchedWithinRows ==
    \A i \in 1..Len(results) : results[i].has_summary =>
        /\ results[i].summary.matched <= results[i].summary.total_planilha
        /\ results[i].summary.unmatched_planilha >= 0

\* what does hold: the entries name no more contacts than the list holds
C26_DistinctContactIds ==
    \A i \in 1..Len(results) : results[i].has_summary =>
        Cardinality({results[i].matches[k].sults_id : k \in 1..Len(results[i].matches)})
            <= results[i].summary.total_sults

C27_FlaggedEntries(i) ==
    Cardinality({k \in 1..Len(results[i].matches) : results[i].matches[k].divergente})

\* C27: the summary's divergent count equals the number of match entries of
\* the run whose divergente flag is true, for entries of the vectorized
\* merges and of the per-row loop, rows with an empty status cell included.
C27_DivergentCountsFlags ==
    \A i \in 1..Len(results) : results[i].has_summary =>
        results[i].summary.divergent = C27_FlaggedEntries(i)

\* the counter is never below the number of flagged entries
C27_CounterAtLeastFlags ==
    \A i \in 1..Len(results) : results[i].has_summary =>
        results[i].summary.divergent >= C27_FlaggedEntries(i)

\* C30: crosscheck_leads_with_sults leaves the caller's table unchanged: no
\* helper column (_email_norm, _phone_norm, _status_key, _name_slug) is
\* added to the input DataFrame, below and above the sampling threshold.
C30_CallerFrameUntouched == df.helper = <<>>

\* above the threshold the helper columns go onto the sampled copy only
C30_SampledFrameUntouched == Len(df.rows) > max_rows_to_process => df.helper = <<>>

\* rows and row labels of the caller's table are never rewritten
C30_CellsKept == [][df'.rows = df.rows /\ df'.labels = df.labels]_vars

(***************************************************************************)
(* Claims about the vectorized status classifier (checked under NormSpec)  *)
(***************************************************************************)
\* C28: normalize_status_key_vectorized returns for every status text, texts
\* holding keywords of two or three categories and empty / absent values
\* included, the same category as the scalar normalize_status_key.
C28_VectorizedAgreesWithScalar ==
    nFn = "normalize_status_key_vectorized" => nOut = <<normalize_status_key(nIn)>>

\* the number of categories whose keywords the input holds
C28_CategoriesIn(value) ==
    Cardinality({ks \in {WON_KEYWORDS, LOST_KEYWORDS, OPEN_KEYWORDS} :
                    ContainsAny(Lower(FillNaStr(value)), ks)})

\* the two agree on the inputs that hold keywords of one category at most
C28_AgreeOnOneCategory ==
    (nFn = "normalize_status_key_vectorized" /\ C28_CategoriesIn(nIn) <= 1)
        => nOut = <<normalize_status_key(nIn)>>

(***************************************************************************)
(* Asynchronous tasks: run_async_task, its task_wrapper on the executor,   *)
(* cleanup_old_async_tasks and get_async_task_status.  Every block under   *)
(* _async_tasks_lock is one step; the clock counts ticks of half the time  *)
(* to live, so records exist that have aged without expiring.              *)
(***************************************************************************)
MaxTasks == 2           \* task ids, all distinct
MaxAsyncTicks == 3      \* ticks of the clock

_ASYNC_TASK_TTL_HOURS == 24

HoursPerTick == _ASYNC_TASK_TTL_HOURS \div 2

Hours(tick) == tick * HoursPerTick

TaskIds == 1..MaxTasks

\* created_at of task_wrapper before the record is read
NoTime == -1

\* v.get('created_at', now) > cutoff, with cutoff = now - 24 hours
KeptByCleanup(record, t) ==
    Hours(record.created_at) > Hours(t) - _ASYNC_TASK_TTL_HOURS

\* the dictionary cleanup_old_async_tasks leaves
CleanedTasks(tasks, t) ==
    [id \in {k \in DOMAIN tasks : KeptByCleanup(tasks[k], t)} |-> tasks[id]]

\* _async_tasks[task_id] = record
PutTask(tasks, task_id, record) ==
    [id \in DOMAIN tasks \cup {task_id} |-> IF id = task_id THEN record ELSE tasks[id]]

RunningRecord(t) ==
    [status |-> "running", result |-> "None", error |-> "None", created_at |-> t]

\* `created_at or datetime.now()`
CreatedAtOrNow_AlwaysNow(created_at, t) == t

CreatedAtOrNow(created_at, t) == IF created_at = NoTime THEN t ELSE created_at

CompletedRecord(created_at, t) ==
    [status |-> "completed", result |-> "result", error |-> "None",
     created_at |-> CreatedAtOrNow(created_at, t)]

ErrorRecord(created_at, t) ==
    [status |-> "error", result |-> "None", error |-> "str(e)",
     created_at |-> CreatedAtOrNow(created_at, t)]

\* how func(*args, **kwargs) ends: it returns, raises an Exception, or
\* raises a BaseException that is not an Exception (SystemExit,
\* KeyboardInterrupt, GeneratorExit), which `except Exception` lets through
FuncOutcomes == {"returns", "Exception", "BaseException"}

\* the first block of task_wrapper
ReadCreatedAt(tasks, task_id) ==
    IF task_id \in DOMAIN tasks THEN tasks[task_id].created_at ELSE NoTime

\* the dictionary after func ended
TasksAfter(tasks, task_id, outcome, created_at, t) ==
    IF outcome = "returns" THEN PutTask(tasks, task_id, CompletedRecord(created_at, t))
    ELSE IF outcome = "Exception" THEN PutTask(tasks, task_id, ErrorRecord(created_at, t))
    ELSE tasks

AsyncInit ==
    /\ nIn = None
    /\ nFn = "none"
    /\ nOut = None
    /\ df = [rows |-> <<>>, labels |-> <<>>, helper |-> <<>>]
    /\ cols = [email |-> FALSE, phone |-> FALSE, name |-> FALSE, status |-> FALSE]
    /\ apiProjects = <<>>
    /\ SULTS_LEADS_CACHE = [timestamp |-> FALSE, leads |-> <<>>, total |-> 0]
    /\ sampleDraw = <<>>
    /\ run = 0
    /\ results = <<>>
    /\ _DATA_CACHE = <<>>
    /\ _async_tasks = <<>>
    /\ caller = [id \in TaskIds |-> [pc |-> "idle", created_at |-> NoTime]]
    /\ worker = [id \in TaskIds |-> [pc |-> "idle", created_at |-> NoTime, outcome |-> "none"]]
    /\ now = 0

AsyncFrame ==
    UNCHANGED <<nIn, df, cols, apiProjects, SULTS_LEADS_CACHE, sampleDraw, run, results,
                _DATA_CACHE>>

\* run_async_task up to the end of its call of cleanup_old_async_tasks
run_async_task(task_id) ==
    /\ caller[task_id].pc = "idle"
    /\ _async_tasks' = CleanedTasks(_async_tasks, now)
    /\ caller' = [caller EXCEPT ![task_id].pc = "cleaned"]
    /\ UNCHANGED <<nFn, nOut, worker, now>>
    /\ AsyncFrame

\* the record is registered as running and task_wrapper is submitted
RegisterAndSubmit(task_id) ==
    /\ caller[task_id].pc = "cleaned"
    /\ _async_tasks' = PutTask(_async_tasks, task_id, RunningRecord(now))
    /\ caller' = [caller EXCEPT ![task_id] = [pc |-> "submitted", created_at |-> now]]
    /\ worker' = [worker EXCEPT ![task_id].pc = "queued"]
    /\ UNCHANGED <<nFn, nOut, now>>
    /\ AsyncFrame

\* an executor thread takes task_wrapper and reads created_at
WorkerStart(task_id) ==
    /\ worker[task_id].pc = "queued"
    /\ worker' = [worker EXCEPT ![task_id].pc = "in_func",
                                ![task_id].created_at = ReadCreatedAt(_async_tasks, task_id)]
    /\ UNCHANGED <<nFn, nOut, _async_tasks, caller, now>>
    /\ AsyncFrame

\* func ends and task_wrapper writes the record, or is left by the exception
WorkerFinish(task_id) ==
    /\ worker[task_id].pc = "in_func"
    /\ \E outcome \in FuncOutcomes :
          /\ _async_tasks' = TasksAfter(_async_tasks, task_id, outcome,
                                        worker[task_id].created_at, now)
          /\ worker' = [worker EXCEPT ![task_id].pc = "ended",
                                      ![task_id].outcome = outcome]
    /\ UNCHANGED <<nFn, nOut, caller, now>>
    /\ AsyncFrame

\* _async_tasks.get(task_id): what a status read returns
StatusOf(tasks, task_id) ==
    IF task_id \in DOMAIN tasks THEN <<tasks[task_id].status>> ELSE None

\* get_async_task_status cleans up and then reads the dictionary, which
\* changes nothing: its answer for a task is StatusOf of the state it leaves
get_async_task_status ==
    /\ _async_tasks' = CleanedTasks(_async_tasks, now)
    /\ UNCHANGED <<nFn, nOut, caller, worker, now>>
    /\ AsyncFrame

AsyncClockTick ==
    /\ now < MaxAsyncTicks
    /\ now' = now + 1
    /\ UNCHANGED <<nFn, nOut, _async_tasks, caller, worker>>
    /\ AsyncFrame

AsyncNext ==
    \/ \E task_id \in TaskIds : run_async_task(task_id)
    \/ \E task_id \in TaskIds : RegisterAndSubmit(task_id)
    \/ \E task_id \in TaskIds : WorkerStart(task_id)
    \/ \E task_id \in TaskIds : WorkerFinish(task_id)
    \/ get_async_task_status
    \/ AsyncClockTick

\* the executor runs every task_wrapper submitted to it, and func ends
AsyncFairness ==
    \A task_id \in TaskIds :
        /\ WF_vars(WorkerStart(task_id))
        /\ WF_vars(WorkerFinish(task_id))

AsyncSpec == AsyncInit /\ [][AsyncNext]_vars /\ AsyncFairness

(***************************************************************************)
(* Claims about the asynchronous tasks (checked under AsyncSpec)           *)
(***************************************************************************)
C29_Submitted(id) == caller[id].pc = "submitted"

C29_FuncPending(id) == worker[id].pc \in {"queued", "in_func"}

C29_Ended(id, outcome) == worker[id].pc = "ended" /\ worker[id].outcome = outcome

C29_RecordIs(id, record) == id \in DOMAIN _async_tasks /\ _async_tasks[id] = record

C29_Terminal(id) ==
    \/ C29_RecordIs(id, [status |-> "completed", result |-> "result", error |-> "None",
                         created_at |-> caller[id].created_at])
    \/ C29_RecordIs(id, [status |-> "error", result |-> "None", error |-> "str(e)",
                         created_at |-> caller[id].created_at])

\* C29: under every interleaving of the worker threads, concurrent
\* run_async_task calls and get_async_task_status / cleanup calls, the record
\* of a task with its own id is 'running' from registration until its
\* function returns or raises, then is exactly one of 'completed' (result
\* set, error None) or 'error' (error set, result None) with its original
\* created_at.
C29_Lifecycle ==
    \A id \in TaskIds : C29_Submitted(id) =>
        IF C29_FuncPending(id)
        THEN C29_RecordIs(id, RunningRecord(caller[id].created_at))
        ELSE C29_Terminal(id)

\* C29, liveness as stated: every task registered reaches a terminal status
C29_EveryTaskTerminal ==
    \A id \in TaskIds :
        C29_Submitted(id) ~> (worker[id].pc = "ended" /\ worker[id].outcome # "BaseException")

C29_NotExpired(id) ==
    Hours(now) - Hours(caller[id].created_at) < _ASYNC_TASK_TTL_HOURS

\* the lifecycle of a record younger than the time to live: running while
\* func is pending, and after a BaseException that is not an Exception;
\* completed after a return and error after an Exception
C29_LifecycleUntilExpiry ==
    \A id \in TaskIds : (C29_Submitted(id) /\ C29_NotExpired(id)) =>
        IF C29_FuncPending(id) \/ C29_Ended(id, "BaseException")
        THEN C29_RecordIs(id, RunningRecord(caller[id].created_at))
        ELSE IF C29_Ended(id, "returns")
        THEN C29_RecordIs(id, CompletedRecord(caller[id].created_at, now))
        ELSE C29_RecordIs(id, ErrorRecord(caller[id].created_at, now))

\* a terminal status is never overwritten by 'running'
C29_NeverBackToRunning ==
    [][\A id \in TaskIds :
          (/\ id \in DOMAIN _async_tasks
           /\ _async_tasks[id].status \in {"completed", "error"}
           /\ id \in DOMAIN _async_tasks')
              => _async_tasks'[id].status \in {"completed", "error"}]_vars

\* when the executor runs the workers, the function of every task ends
C29_EveryFuncEnds ==
    \A id \in TaskIds : C29_Submitted(id) ~> (worker[id].pc = "ended")

\* a terminal status is written whenever func returned or raised an
\* Exception, also after the record expired
C29_TerminalWritten ==
    [][\A id \in TaskIds :
          (worker[id].pc = "in_func" /\ worker'[id].pc = "ended"
           /\ worker'[id].outcome # "BaseException")
              => (id \in DOMAIN _async_tasks'
                  /\ _async_tasks'[id].status =
                       (IF worker'[id].outcome = "returns" THEN "completed" ELSE "error"))]_vars

\* C29 as the code keeps it
C29_LifecycleWithinTimeToLive ==
    /\ []C29_LifecycleUntilExpiry
    /\ C29_NeverBackToRunning
    /\ C29_TerminalWritten
    /\ C29_EveryFuncEnds

\* one task completed and another failed, both after the clock moved on
C29_Witness ==
    \E a, b \in TaskIds :
        /\ C29_Submitted(a) /\ C29_NotExpired(a) /\ C29_Ended(a, "returns")
        /\ caller[a].created_at < now
        /\ C29_RecordIs(a, CompletedRecord(caller[a].created_at, now))
        /\ C29_Submitted(b) /\ C29_NotExpired(b) /\ C29_Ended(b, "Exception")
        /\ C29_RecordIs(b, ErrorRecord(caller[b].created_at, now))

\* the same lifecycle for functions that return or raise an Exception only:
\* the record of a task that outlives the time to live is removed while
\* the task is running
C29_LifecycleOfOrdinaryFuncs ==
    \A id \in TaskIds : (C29_Submitted(id) /\ ~C29_Ended(id, "BaseException")) =>
        IF C29_FuncPending(id)
        THEN C29_RecordIs(id, RunningRecord(caller[id].created_at))
        ELSE C29_Terminal(id)

====
